---- MODULE Spec2Model ----
(***************************************************************************)
(* Offline-first synchronisation (pull / push) and audit logging of the    *)
(* clinic record server, modelled from models/sync.ts, the entity adapters *)
(* (visit, event, prescription, patient-problem, event-form,               *)
(* user-clinic-permissions) and models/event-logs.ts.                      *)
(*                                                                         *)
(* Timestamps are counted in days, the unit of MAX_HISTORY_DAYS_SYNC, so   *)
(* `maxHistoryDays * 24 * 60 * 60 * 1000` milliseconds is maxHistoryDays   *)
(* units of the clock `now`.  Watermark 0 is the bootstrap watermark; every*)
(* row is written at a time >= 1.                                          *)
(*                                                                         *)
(* Catalogue entities whose adapters are not part of the sources at hand   *)
(* (patients, appointments, clinics, ...) are left out of the catalogue;   *)
(* the ones kept cover every kind of descriptor: pull+push, pull only and  *)
(* exempt from the history limit, and the two extra pull-only tables.      *)
(***************************************************************************)
EXTENDS Integers, Sequences, FiniteSets, TLC

VARIABLES
    now,        \* the database clock, now()
    env,        \* process.env.MAX_HISTORY_DAYS_SYNC
    users,      \* the users table (ids); read by Event.API.save
    db,         \* the syncable tables: table name -> (row id -> row)
    extra,      \* user_clinic_permissions and app_config: name -> (id -> row)
    writes,     \* number of adapter calls made so far (bounds the model)
    pull,       \* the getDeltaRecords call in flight
    result,     \* its DBChangeSet: mobile table name -> DeltaData (row ids)
    push,       \* the persistClientChanges call in flight
    event_logs, \* the event_logs table: id -> row
    nextLogId,  \* the next uuidv7 (time ordered, never reused)
    audit,      \* the last audit-log operation and the verification run in flight
    web,        \* the last server function call and what it returned
    clean,      \* the last pushed record and what the push handed to the adapter
    store,      \* eventFormStore: the form builder's context
    removed     \* history: the rows deleted from user_clinic_permissions, and when

vars == <<now, env, users, db, extra, writes, pull, result, push,
          event_logs, nextLogId, audit, web, clean, store, removed>>

----------------------------------------------------------------------------
(* Bounds *)

MaxTime == 3
MaxWrites == 2

(* SQL NULL in a timestamp column *)
NULL == -1

(* null / undefined / a string that is no UUID, in a uuid reference *)
NoRef == "null"

VisitIds == {"v1"}
RowIds == {"r1"}
(* the uuidV1() values the server generates, in the order it draws them *)
GenSeq == <<"g1", "g2", "g3", "g4">>
GenIds == {GenSeq[i] : i \in 1..Len(GenSeq)}
Vals == {"a"}

IsValidUUID(s) == s \in VisitIds \cup RowIds \cup GenIds

----------------------------------------------------------------------------
(* The catalogue *)

(* the list with the audit log entity added: C20 depends on its absence *)
ENTITIES_TO_PUSH_TO_MOBILE_withEventLog ==
    <<"visits", "events", "event_forms", "prescriptions", "patient_problems",
      "event_logs">>

ENTITIES_TO_PUSH_TO_MOBILE ==
    <<"visits", "events", "event_forms", "prescriptions", "patient_problems">>

ENTITIES_TO_PULL_FROM_MOBILE ==
    <<"visits", "events", "prescriptions", "patient_problems">>

Range(s) == {s[i] : i \in 1..Len(s)}

Tables == Range(ENTITIES_TO_PUSH_TO_MOBILE)
ExtraTables == {"user_clinic_permissions", "app_config"}

(* entity.Table.mobileName: the same as Table.name for every entity kept *)
MobileName(t) == t

EXEMPT_FROM_HISTORY_LIMIT ==
    {"clinics", "patient_registration_forms", "event_forms",
     "drug_catalogue", "clinic_departments", "clinic_inventory"}

----------------------------------------------------------------------------
(* Rows and small helpers *)

EmptyTable == [x \in {} |-> {}]

Put(tbl, id, row) == (id :> row) @@ tbl

(* uuidV1(): the first generated id that names no row of tbl *)
HasFreshId(tbl) == \E i \in 1..Len(GenSeq) : GenSeq[i] \notin DOMAIN tbl

uuidV1(tbl) ==
    GenSeq[CHOOSE i \in 1..Len(GenSeq) :
              /\ GenSeq[i] \notin DOMAIN tbl
              /\ \A j \in 1..(i - 1) : GenSeq[j] \in DOMAIN tbl]

(* col > T in SQL: NULL compares to nothing *)
After(col, T) == col # NULL /\ col > T
Before(col, T) == col # NULL /\ col < T

----------------------------------------------------------------------------
(* HistoryWindowPolicy: getMaxHistoryDaysSync and the cutoff *)

EnvValues == {"unset", "", "abc", "1.5", "0", "-1", "1", "2"}

(* Number(envValue) on the sample strings: NaN, or twice the number (so   *)
(* that 1.5 is representable)                                             *)
NumberOf(s) ==
    CASE s = "1"   -> [nan |-> FALSE, twice |-> 2]
      [] s = "2"   -> [nan |-> FALSE, twice |-> 4]
      [] s = "0"   -> [nan |-> FALSE, twice |-> 0]
      [] s = "-1"  -> [nan |-> FALSE, twice |-> 0 - 2]
      [] s = "1.5" -> [nan |-> FALSE, twice |-> 3]
      [] s = ""    -> [nan |-> FALSE, twice |-> 0]
      [] OTHER     -> [nan |-> TRUE, twice |-> 0]

(* getMaxHistoryDaysSync without the `days <= 0` test: C9 depends on it *)
getMaxHistoryDaysSync_noSignCheck(envValue) ==
    IF envValue = "unset" \/ envValue = ""
    THEN NULL
    ELSE LET days == NumberOf(envValue)
         IN  IF days.nan \/ days.twice % 2 # 0
             THEN NULL
             ELSE days.twice \div 2

getMaxHistoryDaysSync(envValue) ==
    IF envValue = "unset" \/ envValue = ""
    THEN NULL
    ELSE LET days == NumberOf(envValue)
         IN  IF days.nan \/ days.twice <= 0 \/ days.twice % 2 # 0
             THEN NULL
             ELSE days.twice \div 2

effectiveLastSyncDate(clientLastSyncDate, nowAt, maxHistoryDays) ==
    IF maxHistoryDays # NULL
    THEN LET cutoffDate == nowAt - maxHistoryDays
         IN  IF clientLastSyncDate < cutoffDate
             THEN cutoffDate
             ELSE clientLastSyncDate
    ELSE clientLastSyncDate

isExemptFromHistoryLimit(t) == MobileName(t) \in EXEMPT_FROM_HISTORY_LIMIT

(* lastSyncDate without the exemption list: C8 depends on it *)
lastSyncDate_noExemption(t, clientLastSyncDate, effectiveDate) == effectiveDate

lastSyncDate(t, clientLastSyncDate, effectiveDate) ==
    IF isExemptFromHistoryLimit(t) THEN clientLastSyncDate ELSE effectiveDate

----------------------------------------------------------------------------
(* DeltaComputer: the three queries of getDeltaRecords on one table *)

Live(row) == row.deleted_at = NULL /\ row.is_deleted = FALSE

newRecords(tbl, L) ==
    {id \in DOMAIN tbl : tbl[id].server_created_at > L /\ Live(tbl[id])}

(* updatedRecords without the server_created_at filter: C2 depends on it *)
updatedRecords_noCreatedFilter(tbl, L) ==
    {id \in DOMAIN tbl : tbl[id].last_modified > L /\ Live(tbl[id])}

updatedRecords(tbl, L) ==
    {id \in DOMAIN tbl :
        /\ tbl[id].last_modified > L
        /\ tbl[id].server_created_at < L
        /\ Live(tbl[id])}

(* deletedRecords without the `lastSyncedAt === 0` case: C1 depends on it *)
deletedRecords_noBootstrapCase(tbl, L, lastSyncedAt) ==
    {id \in DOMAIN tbl :
        After(tbl[id].deleted_at, L) /\ tbl[id].is_deleted = TRUE}

deletedRecords(tbl, L, lastSyncedAt) ==
    IF lastSyncedAt = 0
    THEN {}
    ELSE {id \in DOMAIN tbl :
             After(tbl[id].deleted_at, L) /\ tbl[id].is_deleted = TRUE}

(* the down-only tables: created_at / updated_at, never a deleted list *)
extraCreated(tbl, T) == {id \in DOMAIN tbl : tbl[id].created_at > T}

extraUpdated(tbl, T) ==
    {id \in DOMAIN tbl : tbl[id].created_at < T /\ tbl[id].updated_at > T}

extraDeleted(tbl, T) == {}

----------------------------------------------------------------------------
(* Entity adapters.  Each takes the tables d, the clock t and the client   *)
(* record (or row id) and gives the tables after the call.                 *)
(* A client record is [id, val, is_deleted, deleted_at, visit_id]; `val`   *)
(* stands for the entity's plain client-writable columns.                  *)

NewRow(t, val, isDeleted, deletedAt, visitId) ==
    [server_created_at |-> t, last_modified |-> t, is_deleted |-> isDeleted,
     deleted_at |-> deletedAt, visit_id |-> visitId, val |-> val]

(* Visit.API.upsert_core *)
Visit_upsert_core(d, t, visit) ==
    LET tbl == d["visits"] IN
    IF visit.id \in DOMAIN tbl
    THEN [d EXCEPT !["visits"][visit.id] =
             [@ EXCEPT !.val = visit.val,
                       !.is_deleted = visit.is_deleted,
                       !.last_modified = t]]
    ELSE [d EXCEPT !["visits"] =
             Put(tbl, visit.id, NewRow(t, visit.val, visit.is_deleted, NULL, NoRef))]

(* UPDATE tbl SET is_deleted = true, updated_at = now(), last_modified = now() *)
(* WHERE keep(row): the statement the soft deletes of visits, events and       *)
(* prescriptions are made of                                                   *)
MarkDeleted(tbl, t, ids) ==
    [id \in DOMAIN tbl |->
        IF id \in ids
        THEN [tbl[id] EXCEPT !.is_deleted = TRUE, !.last_modified = t]
        ELSE tbl[id]]

(* Visit.API.softDelete: one transaction over visits, prescriptions, events *)
(* (and appointments, not kept here)                                        *)
Visit_softDelete(d, t, id) ==
    [d EXCEPT
        !["visits"] = MarkDeleted(@, t, {id}),
        !["prescriptions"] =
            MarkDeleted(@, t, {p \in DOMAIN @ : @[p].visit_id = id}),
        !["events"] =
            MarkDeleted(@, t, {e \in DOMAIN @ : @[e].visit_id = id})]

(* Event.API.save, first half: the visit the event hangs on.  The result is  *)
(* the visit id to store, or NoRef with no user to borrow a clinic from      *)
Event_visitExists(d, event) ==
    IsValidUUID(event.visit_id) /\ event.visit_id \in DOMAIN d["visits"]

Event_insertVisitId(d, event) ==
    IF IsValidUUID(event.visit_id) THEN event.visit_id ELSE uuidV1(d["visits"])

Event_withVisit(d, t, us, event) ==
    IF Event_visitExists(d, event) \/ us = {}
    THEN d
    ELSE [d EXCEPT !["visits"] =
             Put(@, Event_insertVisitId(d, event),
                 NewRow(t, "auto", FALSE, NULL, NoRef))]

(* Event.API.save, second half: the upsert of the event itself *)
Event_upsert(d, t, event, visitId) ==
    LET tbl == d["events"] IN
    IF event.id \in DOMAIN tbl
    THEN [d EXCEPT !["events"][event.id] =
             [@ EXCEPT !.visit_id = visitId,
                       !.val = event.val,
                       !.is_deleted = FALSE,
                       !.last_modified = t]]
    ELSE [d EXCEPT !["events"] =
             Put(tbl, event.id, NewRow(t, event.val, FALSE, NULL, visitId))]

Event_save(d, t, us, event) ==
    IF ~Event_visitExists(d, event) /\ us = {}
    THEN d      \* "User not found": returns without writing
    ELSE Event_upsert(Event_withVisit(d, t, us, event), t, event,
                      IF Event_visitExists(d, event)
                      THEN event.visit_id
                      ELSE Event_insertVisitId(d, event))

Event_softDelete(d, t, id) ==
    [d EXCEPT !["events"] = MarkDeleted(@, t, {id} \cap DOMAIN @)]

(* prescription.filled_at ? toSafeDateString(...) : null *)
Prescription_filled_at(prescription) ==
    IF "filled_at" \in DOMAIN prescription
    THEN prescription.filled_at
    ELSE NULL

(* Prescription.API.save: one transaction; a prescription without a valid    *)
(* visit id gets a new visit.  filled_at is written by the insert and is not *)
(* in the column list of the conflict branch (nor is prescribed_at)          *)
Prescription_save(d, t, prescription) ==
    LET visitId == IF IsValidUUID(prescription.visit_id)
                   THEN prescription.visit_id
                   ELSE uuidV1(d["visits"])
        d1 == IF IsValidUUID(prescription.visit_id)
              THEN d
              ELSE [d EXCEPT !["visits"] =
                       Put(@, visitId, NewRow(t, "", FALSE, NULL, NoRef))]
        tbl == d1["prescriptions"]
    IN  IF prescription.id \in DOMAIN tbl
        THEN [d1 EXCEPT !["prescriptions"][prescription.id] =
                 [@ EXCEPT !.visit_id = visitId,
                           !.val = prescription.val,
                           !.last_modified = t]]
        ELSE [d1 EXCEPT !["prescriptions"] =
                 Put(tbl, prescription.id,
                     [filled_at |-> Prescription_filled_at(prescription)]
                        @@ NewRow(t, prescription.val, FALSE, NULL, visitId))]

Prescription_softDelete(d, t, id) ==
    [d EXCEPT !["prescriptions"] = MarkDeleted(@, t, {id} \cap DOMAIN @)]

(* PatientProblem.Sync.pickColumns + upsertFromDelta: every column comes from *)
(* the delta or from now(), except server_created_at on conflict              *)
PatientProblem_upsertFromDelta(d, t, delta) ==
    LET tbl == d["patient_problems"]
        row == NewRow(t, delta.val, delta.is_deleted, delta.deleted_at,
                      delta.visit_id)
    IN  IF delta.id \in DOMAIN tbl
        THEN [d EXCEPT !["patient_problems"][delta.id] =
                 [row EXCEPT !.server_created_at =
                                 tbl[delta.id].server_created_at]]
        ELSE [d EXCEPT !["patient_problems"] = Put(tbl, delta.id, row)]

(* PatientProblem.softDelete: is_deleted and deleted_at, nothing else *)
PatientProblem_softDelete(d, t, id) ==
    [d EXCEPT !["patient_problems"] =
        [r \in DOMAIN @ |->
            IF r = id
            THEN [@[r] EXCEPT !.is_deleted = TRUE, !.deleted_at = t]
            ELSE @[r]]]

(* pushTableNameModelMap[tableName].Sync.upsertFromDelta / deleteFromDelta *)
upsertFromDelta(d, t, us, tableName, record) ==
    CASE tableName = "visits"           -> Visit_upsert_core(d, t, record)
      [] tableName = "events"           -> Event_save(d, t, us, record)
      [] tableName = "prescriptions"    -> Prescription_save(d, t, record)
      [] tableName = "patient_problems" ->
             PatientProblem_upsertFromDelta(d, t, record)

deleteFromDelta(d, t, tableName, id) ==
    CASE tableName = "visits"           -> Visit_softDelete(d, t, id)
      [] tableName = "events"           -> Event_softDelete(d, t, id)
      [] tableName = "prescriptions"    -> Prescription_softDelete(d, t, id)
      [] tableName = "patient_problems" -> PatientProblem_softDelete(d, t, id)

(* whether the call needs a uuidV1() the model can still supply *)
NeedsFreshVisit(d, us, tableName, record) ==
    CASE tableName = "events" ->
             ~Event_visitExists(d, record) /\ us # {}
             /\ ~IsValidUUID(record.visit_id)
      [] tableName = "prescriptions" -> ~IsValidUUID(record.visit_id)
      [] OTHER -> FALSE

----------------------------------------------------------------------------
(* Server-side writers of the pull-only tables *)

(* EventForm.API.insert / update / softDelete *)
EventForm_insert(d, t, form) ==
    [d EXCEPT !["event_forms"] =
        Put(@, uuidV1(@), NewRow(t, form.val, form.is_deleted, NULL, NoRef))]

EventForm_update(d, t, id, form) ==
    [d EXCEPT !["event_forms"] =
        [r \in DOMAIN @ |->
            IF r = id
            THEN [@[r] EXCEPT !.val = form.val, !.last_modified = t]
            ELSE @[r]]]

EventForm_softDelete(d, t, id) ==
    [d EXCEPT !["event_forms"] =
        [r \in DOMAIN @ |->
            IF r = id
            THEN [@[r] EXCEPT !.is_deleted = TRUE, !.last_modified = t,
                              !.deleted_at = t]
            ELSE @[r]]]

(* UserClinicPermissions.API.upsert / remove; a row is keyed by (user, clinic) *)
UserClinicPermissions_upsert(x, t, key) ==
    [x EXCEPT !["user_clinic_permissions"] =
        IF key \in DOMAIN @
        THEN [@ EXCEPT ![key].updated_at = t]
        ELSE Put(@, key, [created_at |-> t, updated_at |-> t])]

UserClinicPermissions_remove(x, key) ==
    [x EXCEPT !["user_clinic_permissions"] =
        [r \in (DOMAIN @) \ {key} |-> @[r]]]

----------------------------------------------------------------------------
(* The records a client can push, per table (after sanitisation) *)

ClientRecords(tableName, t) ==
    CASE tableName = "visits" ->
             [id : VisitIds, val : Vals, is_deleted : BOOLEAN,
              deleted_at : {NULL}, visit_id : {NoRef}]
      [] tableName \in {"events", "prescriptions"} ->
             [id : RowIds, val : Vals, is_deleted : {FALSE},
              deleted_at : {NULL}, visit_id : VisitIds \cup {NoRef}]
      [] tableName = "patient_problems" ->
             [id : RowIds, val : Vals, is_deleted : BOOLEAN,
              deleted_at : {NULL, t}, visit_id : {NoRef}]

ClientIds(tableName) == IF tableName = "visits" THEN VisitIds ELSE RowIds

PermissionKeys == {"u1c1"}

----------------------------------------------------------------------------
(* Initial states *)

EmptyDb == [t \in Tables |-> EmptyTable]
EmptyExtra == [t \in ExtraTables |-> EmptyTable]

IdlePull ==
    [pc |-> "idle", idx |-> 0, lastSyncedAt |-> 0,
     effectiveLastSyncDate |-> 0, newRecords |-> {}, updatedRecords |-> {}]

IdlePush ==
    [pc |-> "idle", request |-> <<>>, k |-> 0, s |-> 0, error |-> "none",
     db0 |-> EmptyDb, attempts |-> 0, failures |-> 0, completed |-> 0,
     once |-> EmptyTable]

IdleAudit ==
    [op |-> "none", ok |-> TRUE, returned |-> [verified |-> 0, failed |-> 0],
     pending |-> FALSE, snapshot |-> EmptyTable]

IdleWeb ==
    [op |-> "none", committed |-> FALSE, logged |-> FALSE, success |-> FALSE,
     id |-> NoRef]

IdleClean ==
    [tableName |-> "none", record |-> EmptyTable, cleaned |-> EmptyTable]

(* the store context the form builder starts from; of the context, the *)
(* fields the translation events read or write                        *)
INITIAL_FORM_BUILDER_CONTEXT ==
    [name |-> "", description |-> "", language |-> "en",
     form_fields |-> <<>>, translations |-> <<>>]

InitCommon ==
    /\ now = 1
    /\ db = EmptyDb
    /\ extra = EmptyExtra
    /\ writes = 0
    /\ pull = IdlePull
    /\ result = EmptyTable
    /\ push = IdlePush
    /\ event_logs = EmptyTable
    /\ nextLogId = 1
    /\ audit = IdleAudit
    /\ web = IdleWeb
    /\ clean = IdleClean
    /\ store = INITIAL_FORM_BUILDER_CONTEXT
    /\ removed = EmptyTable

----------------------------------------------------------------------------
(* The clock *)

Tick ==
    /\ now < MaxTime
    /\ now' = now + 1
    /\ UNCHANGED <<env, users, db, extra, writes, pull, result, push,
                   event_logs, nextLogId, audit, web, clean, store, removed>>

----------------------------------------------------------------------------
(* Adapter calls and server-side writes, as they interleave with a pull *)

Upsert(tableName, record) ==
    /\ writes < MaxWrites
    /\ NeedsFreshVisit(db, users, tableName, record) => HasFreshId(db["visits"])
    /\ db' = upsertFromDelta(db, now, users, tableName, record)
    /\ writes' = writes + 1
    /\ UNCHANGED <<now, env, users, extra, pull, result, push,
                   event_logs, nextLogId, audit, web, clean, store, removed>>

Delete(tableName, id) ==
    /\ writes < MaxWrites
    /\ db' = deleteFromDelta(db, now, tableName, id)
    /\ writes' = writes + 1
    /\ UNCHANGED <<now, env, users, extra, pull, result, push,
                   event_logs, nextLogId, audit, web, clean, store, removed>>

FormInsert(form) ==
    /\ writes < MaxWrites
    /\ HasFreshId(db["event_forms"])
    /\ db' = EventForm_insert(db, now, form)
    /\ writes' = writes + 1
    /\ UNCHANGED <<now, env, users, extra, pull, result, push,
                   event_logs, nextLogId, audit, web, clean, store, removed>>

FormUpdate(id, form) ==
    /\ writes < MaxWrites
    /\ id \in DOMAIN db["event_forms"]
    /\ db' = EventForm_update(db, now, id, form)
    /\ writes' = writes + 1
    /\ UNCHANGED <<now, env, users, extra, pull, result, push,
                   event_logs, nextLogId, audit, web, clean, store, removed>>

FormSoftDelete(id) ==
    /\ writes < MaxWrites
    /\ id \in DOMAIN db["event_forms"]
    /\ db' = EventForm_softDelete(db, now, id)
    /\ writes' = writes + 1
    /\ UNCHANGED <<now, env, users, extra, pull, result, push,
                   event_logs, nextLogId, audit, web, clean, store, removed>>

PermissionUpsert(key) ==
    /\ writes < MaxWrites
    /\ extra' = UserClinicPermissions_upsert(extra, now, key)
    /\ writes' = writes + 1
    /\ UNCHANGED <<now, env, users, db, pull, result, push,
                   event_logs, nextLogId, audit, web, clean, store, removed>>

PermissionRemove(key) ==
    /\ writes < MaxWrites
    /\ key \in DOMAIN extra["user_clinic_permissions"]
    /\ extra' = UserClinicPermissions_remove(extra, key)
    /\ removed' = Put(removed, key, now)
    /\ writes' = writes + 1
    /\ UNCHANGED <<now, env, users, db, pull, result, push,
                   event_logs, nextLogId, audit, web, clean, store>>

----------------------------------------------------------------------------
(* Sync.getDeltaRecords: one query per step *)

ExtraSeq == <<"user_clinic_permissions", "app_config">>

PullEntity == ENTITIES_TO_PUSH_TO_MOBILE[pull.idx]

PullCutoff(t) ==
    lastSyncDate(t, pull.lastSyncedAt, pull.effectiveLastSyncDate)

PullStart(lastSyncedAt) ==
    /\ pull.pc = "idle"
    /\ pull' = [IdlePull EXCEPT
                   !.pc = "created", !.idx = 1,
                   !.lastSyncedAt = lastSyncedAt,
                   !.effectiveLastSyncDate =
                       effectiveLastSyncDate(lastSyncedAt, now,
                                             getMaxHistoryDaysSync(env))]
    /\ result' = EmptyTable
    /\ UNCHANGED <<now, env, users, db, extra, writes, push,
                   event_logs, nextLogId, audit, web, clean, store, removed>>

PullCreated ==
    /\ pull.pc = "created"
    /\ pull' = [pull EXCEPT
                   !.pc = "updated",
                   !.newRecords = newRecords(db[PullEntity], PullCutoff(PullEntity))]
    /\ UNCHANGED <<now, env, users, db, extra, writes, result, push,
                   event_logs, nextLogId, audit, web, clean, store, removed>>

PullUpdated ==
    /\ pull.pc = "updated"
    /\ pull' = [pull EXCEPT
                   !.pc = "deleted",
                   !.updatedRecords =
                       updatedRecords(db[PullEntity], PullCutoff(PullEntity))]
    /\ UNCHANGED <<now, env, users, db, extra, writes, result, push,
                   event_logs, nextLogId, audit, web, clean, store, removed>>

PullDeleted ==
    /\ pull.pc = "deleted"
    /\ result' =
          Put(result, MobileName(PullEntity),
              [created |-> pull.newRecords,
               updated |-> pull.updatedRecords,
               deleted |-> deletedRecords(db[PullEntity], PullCutoff(PullEntity),
                                          pull.lastSyncedAt)])
    /\ pull' = IF pull.idx < Len(ENTITIES_TO_PUSH_TO_MOBILE)
               THEN [pull EXCEPT !.pc = "created", !.idx = @ + 1,
                                 !.newRecords = {}, !.updatedRecords = {}]
               ELSE [pull EXCEPT !.pc = "x_created", !.idx = 1,
                                 !.newRecords = {}, !.updatedRecords = {}]
    /\ UNCHANGED <<now, env, users, db, extra, writes, push,
                   event_logs, nextLogId, audit, web, clean, store, removed>>

PullExtraCreated ==
    /\ pull.pc = "x_created"
    /\ pull' = [pull EXCEPT
                   !.pc = "x_updated",
                   !.newRecords =
                       extraCreated(extra[ExtraSeq[pull.idx]], pull.lastSyncedAt)]
    /\ UNCHANGED <<now, env, users, db, extra, writes, result, push,
                   event_logs, nextLogId, audit, web, clean, store, removed>>

PullExtraUpdated ==
    /\ pull.pc = "x_updated"
    /\ result' =
          Put(result, ExtraSeq[pull.idx],
              [created |-> pull.newRecords,
               updated |-> extraUpdated(extra[ExtraSeq[pull.idx]],
                                        pull.lastSyncedAt),
               deleted |-> extraDeleted(extra[ExtraSeq[pull.idx]],
                                        pull.lastSyncedAt)])
    /\ pull' = IF pull.idx < Len(ExtraSeq)
               THEN [pull EXCEPT !.pc = "x_created", !.idx = @ + 1,
                                 !.newRecords = {}]
               ELSE [pull EXCEPT !.pc = "done", !.newRecords = {}]
    /\ UNCHANGED <<now, env, users, db, extra, writes, push,
                   event_logs, nextLogId, audit, web, clean, store, removed>>

(* the response has been sent; the next request may come *)
PullReturn ==
    /\ pull.pc = "done"
    /\ pull' = IdlePull
    /\ result' = EmptyTable
    /\ UNCHANGED <<now, env, users, db, extra, writes, push,
                   event_logs, nextLogId, audit, web, clean, store, removed>>

(* The adapters that write while a pull runs.  For the columns the queries  *)
(* read, an events or prescriptions row takes no value a visits row does    *)
(* not take (soft delete without deleted_at), so these two stand for them.  *)
PullWriters == {"visits", "patient_problems"}

InitPull ==
    /\ InitCommon
    /\ env \in {"unset", "1", "2"}
    /\ users = {"u1"}

NextPull ==
    \/ Tick
    \/ \E t \in PullWriters :
          \/ \E record \in ClientRecords(t, now) : Upsert(t, record)
          \/ \E id \in ClientIds(t) : Delete(t, id)
    \/ \E form \in [val : Vals, is_deleted : {FALSE}] :
          \/ FormInsert(form)
          \/ \E id \in GenIds : FormUpdate(id, form)
    \/ \E id \in GenIds : FormSoftDelete(id)
    \/ \E key \in PermissionKeys : PermissionUpsert(key) \/ PermissionRemove(key)
    \/ \E lastSyncedAt \in 0..now : PullStart(lastSyncedAt)
    \/ PullCreated
    \/ PullUpdated
    \/ PullDeleted
    \/ PullExtraCreated
    \/ PullExtraUpdated
    \/ PullReturn

SpecPull == InitPull /\ [][NextPull]_vars

----------------------------------------------------------------------------
(* The retention setting in every shape, on pulls alone: an invalid value   *)
(* reads as no limit, so with writers it adds no behaviour to SpecPull      *)

InitPolicy ==
    /\ InitCommon
    /\ env \in EnvValues
    /\ users = {"u1"}

NextPolicy ==
    \/ Tick
    \/ \E lastSyncedAt \in 0..now : PullStart(lastSyncedAt)
    \/ PullCreated
    \/ PullUpdated
    \/ PullDeleted
    \/ PullExtraCreated
    \/ PullExtraUpdated
    \/ PullReturn

SpecPolicy == InitPolicy /\ [][NextPolicy]_vars

----------------------------------------------------------------------------
(* Properties of the pull *)

PulledKeys == DOMAIN result

Max(a, b) == IF a < b THEN b ELSE a

(* C1: in a bootstrap pull (client watermark 0) the `deleted` list of every *)
(* table of the response, the two extra tables included, is empty, whatever *)
(* the tables hold and whatever history limit is configured.                *)
C1_BootstrapNoDeletions ==
    (pull.pc # "idle" /\ pull.lastSyncedAt = 0)
        => \A k \in PulledKeys : result[k].deleted = {}

(* a finished bootstrap pull over a table that holds a row soft-deleted     *)
(* after the cutoff the pull used                                           *)
C1_Witness ==
    /\ pull.pc = "done"
    /\ pull.lastSyncedAt = 0
    /\ \E t \in Tables : \E id \in DOMAIN db[t] :
          /\ db[t][id].is_deleted
          /\ After(db[t][id].deleted_at, PullCutoff(t))
    /\ PulledKeys = {MobileName(t) : t \in Tables} \cup ExtraTables

(* C2: the created and updated sets of one pull are disjoint for every      *)
(* table, also when upserts commit between the two queries.                 *)
C2_CreatedUpdatedDisjoint ==
    /\ pull.newRecords \cap pull.updatedRecords = {}
    /\ \A k \in PulledKeys : result[k].created \cap result[k].updated = {}

(* an upsert committed after the created query of the entity being pulled:  *)
(* its row is live and newer than the cutoff, and the query has missed it   *)
C2_Witness ==
    /\ pull.pc = "deleted"
    /\ \E id \in DOMAIN db[PullEntity] :
          /\ db[PullEntity][id].server_created_at > PullCutoff(PullEntity)
          /\ Live(db[PullEntity][id])
          /\ id \notin pull.newRecords

(* C3: the updated set holds every live row with last_modified > T and      *)
(* server_created_at <= T, a row created exactly at T included.             *)
C3_UpdatedCoversBoundary ==
    [][PullUpdated =>
          \A id \in DOMAIN db[PullEntity] :
              ( /\ Live(db[PullEntity][id])
                /\ db[PullEntity][id].last_modified > PullCutoff(PullEntity)
                /\ db[PullEntity][id].server_created_at <= PullCutoff(PullEntity) )
              => id \in pull'.updatedRecords]_vars

(* C4: once Delete(id) has been applied to an existing row, at a time later *)
(* than a non-zero watermark T, the deleted query of a pull with watermark  *)
(* T lists the id.                                                          *)
C4_DeletePropagates ==
    [][\A t \in PullWriters : \A id \in ClientIds(t) :
          (Delete(t, id) /\ id \in DOMAIN db[t])
          => \A T \in 1..(now - 1) : id \in deletedRecords(db'[t], T, T)]_vars

(* C8: with a valid limit of d days the cutoff of a non-exempt entity is    *)
(* max(watermark, now - d) and that of an exempt entity is the watermark:   *)
(* a non-exempt entity returns no row created and last modified at or       *)
(* before its cutoff, an exempt entity returns what it returns without a    *)
(* limit.                                                                   *)
C8_Days == IF env = "1" THEN 1 ELSE 2

C8_Returned(k) == result[k].created \cup result[k].updated

C8_HistoryWindow ==
    [][ /\ \A T \in 0..now :
            (PullStart(T) /\ env \in {"1", "2"})
            => \A t \in Tables :
                  lastSyncDate(t, pull'.lastSyncedAt, pull'.effectiveLastSyncDate)
                    = IF t \in {"event_forms"}
                      THEN T
                      ELSE Max(T, now - C8_Days)
        /\ \A t \in Tables \ {"event_forms"} :
              MobileName(t) \in PulledKeys' =>
                  \A id \in C8_Returned(MobileName(t))' :
                      \/ db'[t][id].server_created_at > pull'.effectiveLastSyncDate
                      \/ db'[t][id].last_modified > pull'.effectiveLastSyncDate
        /\ (PullCreated /\ PullEntity = "event_forms")
              => pull'.newRecords = newRecords(db["event_forms"], pull.lastSyncedAt)
        /\ (PullUpdated /\ PullEntity = "event_forms")
              => pull'.updatedRecords
                    = updatedRecords(db["event_forms"], pull.lastSyncedAt)
      ]_vars

(* a bootstrap pull under a limit that bites: the exempt table delivers a   *)
(* row older than the window, the non-exempt table withholds one            *)
C8_Witness ==
    /\ pull.pc = "done"
    /\ env = "1"
    /\ pull.lastSyncedAt = 0
    /\ pull.effectiveLastSyncDate > 0
    /\ \E id \in result["event_forms"].created :
          db["event_forms"][id].last_modified <= pull.effectiveLastSyncDate
    /\ \E id \in DOMAIN db["visits"] :
          /\ Live(db["visits"][id])
          /\ id \notin C8_Returned("visits")

(* C9: an unset, empty, non-numeric, non-integer, zero or negative setting  *)
(* does not fail the pull, and the watermark is the cutoff of every entity. *)
C9_InvalidValues == {"unset", "", "abc", "1.5", "0", "-1"}

----------------------------------------------------------------------------
(* The audit log: models/event-logs.ts and the event_logs migration *)

MaxLogs == 2

LogIdSeq == <<"l1", "l2", "l3">>
TxIdSeq == <<"x1", "x2", "x3">>
MobileLogIds == {"m1"}

(* JSON.stringify outputs of the `changes` argument *)
Changes == {"{}", "{\"a\":1}"}
IpAddresses == {NoRef, "10.0.0.1"}
TransactionIds == {NoRef, "t1"}
(* JSON.stringify outputs of the `metadata` argument, or none given *)
Metadatas == {NoRef, "{\"m\":1}"}
(* action_type also stands for device_id, app_id and user_id: text columns *)
(* that are stored, hashed and compared as given                           *)
ActionTypes == {"UPDATE"}
(* the table and the row an entry is about *)
LoggedTables == {"visits"}
LoggedRowIds == {"v1"}

LogEventParams ==
    [actionType : ActionTypes, tableName : LoggedTables, rowId : LoggedRowIds,
     changes : Changes, transactionId : TransactionIds, metadata : Metadatas]

RequestContexts == [ipAddress : IpAddresses]

(* the three values of the nullable boolean column hash_verified *)
SqlNull == "null"
SqlBool(b) == IF b THEN "true" ELSE "false"

(* migration: hash_verified boolean DEFAULT false *)
hash_verified_default == SqlBool(FALSE)

uuidv7 == LogIdSeq[nextLogId]

(* SHA-256 is modelled as the injective image of its input: the joined *)
(* payload itself.  `ipAddress ?? ""` turns an absent address into "". *)
computeHash(data) ==
    <<data.id, data.transactionId, data.actionType, data.tableName,
      data.rowId, data.changes,
      IF data.ipAddress = NoRef THEN "" ELSE data.ipAddress,
      data.createdAt>>

(* Postgres prints a jsonb value with a blank after each ':' and ','. *)
jsonbText(changes) ==
    IF changes = "{\"a\":1}" THEN "{\"a\": 1}" ELSE changes

(* Postgres prints an inet host address with its netmask length. *)
inetText(ip) ==
    IF ip = NoRef THEN "" ELSE IF ip = "10.0.0.1" THEN "10.0.0.1/32" ELSE ip

(* The digest the verification query computes from the stored columns. *)
computed_hash(id, row) ==
    <<id, row.transaction_id, row.action_type, row.table_name, row.row_id,
      jsonbText(row.changes),
      inetText(row.ip_address), row.created_at>>

(* unverified without the WHERE clause: C17 depends on the selection of *)
(* the rows whose hash_verified is null                                 *)
unverified_noFilter(tbl) == DOMAIN tbl

(* WHERE hash_verified IS NULL *)
unverified(tbl) == {id \in DOMAIN tbl : tbl[id].hash_verified = SqlNull}

LIMIT == 10000

(* LIMIT n without ORDER BY: any n of the rows, or all when there are fewer *)
LimitedBatches(rows, limit) ==
    {batch \in SUBSET rows :
        Cardinality(batch) = IF Cardinality(rows) < limit
                             THEN Cardinality(rows) ELSE limit}

(* the trigger function of trg_event_logs_no_update / _no_delete: TRUE *)
(* for RETURN NEW, FALSE for RAISE EXCEPTION; old and new are the rows *)
prevent_event_log_mutation(TG_OP, old, new) ==
    /\ TG_OP = "UPDATE"
    /\ new.transaction_id = old.transaction_id
    /\ new.action_type = old.action_type
    /\ new.table_name = old.table_name
    /\ new.row_id = old.row_id
    /\ new.changes = old.changes
    /\ new.hash = old.hash
    /\ new.ip_address = old.ip_address
    /\ new.created_at = old.created_at

(* one UPDATE statement that gives the rows of `news` their new values; *)
(* an exception in the trigger aborts the whole statement               *)
UpdateRows(tbl, news) ==
    IF \A id \in DOMAIN news :
          prevent_event_log_mutation("UPDATE", tbl[id], news[id])
    THEN [ok |-> TRUE, rows |-> news @@ tbl]
    ELSE [ok |-> FALSE, rows |-> tbl]

(* DeleteRows with no BEFORE DELETE trigger on the table: C15 depends on *)
(* trg_event_logs_no_delete                                             *)
DeleteRows_noTrigger(tbl, ids) ==
    [ok |-> TRUE, rows |-> [id \in (DOMAIN tbl) \ ids |-> tbl[id]]]

(* one DELETE statement on the rows ids *)
DeleteRows(tbl, ids) ==
    IF \A id \in ids : prevent_event_log_mutation("DELETE", tbl[id], tbl[id])
    THEN [ok |-> TRUE, rows |-> [id \in (DOMAIN tbl) \ ids |-> tbl[id]]]
    ELSE [ok |-> FALSE, rows |-> tbl]

(* what the last audit operation was and how it ended *)
AuditDone(op, ok) == [audit EXCEPT !.op = op, !.ok = ok]

AuditFrame ==
    UNCHANGED <<now, env, users, db, extra, pull, result, push, web, clean, store, removed>>

(* the row logEvent and logEvents insert; hash_verified is not among the *)
(* values, so the column takes its default                               *)
LoggedRow(id, transactionId, params, ctx, createdAt) ==
    [transaction_id |-> transactionId,
     action_type |-> params.actionType,
     table_name |-> params.tableName,
     row_id |-> params.rowId,
     changes |-> params.changes,
     ip_address |-> ctx.ipAddress,
     hash |-> computeHash([id |-> id, transactionId |-> transactionId,
                           actionType |-> params.actionType,
                           tableName |-> params.tableName,
                           rowId |-> params.rowId,
                           changes |-> params.changes,
                           ipAddress |-> ctx.ipAddress,
                           createdAt |-> createdAt]),
     hash_verified |-> hash_verified_default,
     metadata |-> IF params.metadata = NoRef THEN "{}" ELSE params.metadata,
     created_at |-> createdAt]

(* EventLog.logEvent: one insert of one row *)
LogEvent(params, ctx) ==
    /\ nextLogId <= MaxLogs
    /\ LET id == uuidv7
           transactionId == IF params.transactionId = NoRef
                            THEN TxIdSeq[nextLogId]
                            ELSE params.transactionId
       IN  event_logs' = Put(event_logs, id,
               LoggedRow(id, transactionId, params, ctx, now))
    /\ nextLogId' = nextLogId + 1
    /\ audit' = AuditDone("logEvent", TRUE)
    /\ UNCHANGED writes
    /\ AuditFrame

(* InsertFromSync as an upsert that overwrites the row on conflict: C22 *)
(* depends on ON CONFLICT DO NOTHING                                    *)
InsertFromSync_overwrite(eventLog) ==
    /\ event_logs' =
          Put(event_logs, eventLog.id,
              [transaction_id |-> eventLog.transaction_id,
               action_type |-> eventLog.action_type,
               table_name |-> eventLog.table_name,
               row_id |-> eventLog.row_id,
               changes |-> eventLog.changes,
               ip_address |-> eventLog.ip_address,
               hash |-> eventLog.hash,
               hash_verified |-> SqlNull,
               metadata |-> eventLog.metadata,
               created_at |-> eventLog.created_at])
    /\ audit' = AuditDone("insertFromSync", TRUE)
    /\ UNCHANGED <<nextLogId, writes>>
    /\ AuditFrame

(* EventLog.API.insertFromSync: insert with hash_verified = null; an *)
(* existing id is left alone (ON CONFLICT DO NOTHING).               *)
InsertFromSync(eventLog) ==
    /\ event_logs' =
          IF eventLog.id \in DOMAIN event_logs
          THEN event_logs
          ELSE Put(event_logs, eventLog.id,
                   [transaction_id |-> eventLog.transaction_id,
                    action_type |-> eventLog.action_type,
                    table_name |-> eventLog.table_name,
                    row_id |-> eventLog.row_id,
                    changes |-> eventLog.changes,
                    ip_address |-> eventLog.ip_address,
                    hash |-> eventLog.hash,
                    hash_verified |-> SqlNull,
                    metadata |-> eventLog.metadata,
                    created_at |-> eventLog.created_at])
    /\ audit' = AuditDone("insertFromSync", TRUE)
    /\ UNCHANGED <<nextLogId, writes>>
    /\ AuditFrame

(* the entries a device can send: it hashes its own fields, or the hash *)
(* it sends does not match them; hash_verified is whatever it holds     *)
MobileEventLogs ==
    UNION {{[id |-> id, transaction_id |-> "t1", action_type |-> "UPDATE",
             table_name |-> "visits", row_id |-> "v1",
             changes |-> "{}", ip_address |-> NoRef, hash |-> h,
             hash_verified |-> v,
             metadata |-> "{}", created_at |-> now] :
               h \in {<<id, "t1", "UPDATE", "visits", "v1", "{}", "", now>>,
                      <<>>},
               v \in {SqlNull, SqlBool(TRUE), SqlBool(FALSE)}} :
           id \in MobileLogIds}

(* LogEventsRows with a transaction id generated per row instead of once *)
(* per call: C16 depends on the single txId                              *)
LogEventsRows_txPerRow(events, ctx, sharedTransactionId) ==
    LET createdAt == now
        idOf(i) == LogIdSeq[nextLogId + i - 1]
    IN  [id \in {idOf(i) : i \in 1..Len(events)} |->
            LET i == CHOOSE j \in 1..Len(events) : idOf(j) = id
                params == events[i]
                txId == IF sharedTransactionId = NoRef
                        THEN TxIdSeq[nextLogId + i - 1]
                        ELSE sharedTransactionId
                transactionId == IF params.transactionId = NoRef
                                 THEN txId ELSE params.transactionId
            IN  LoggedRow(id, transactionId, params, ctx, createdAt)]

(* EventLog.logEvents: nothing for an empty list; else one transaction *)
(* id and one createdAt for the call, and a single insert of all rows, *)
(* which is kept whole or fails whole                                  *)
LogEventsRows(events, ctx, sharedTransactionId) ==
    LET txId == IF sharedTransactionId = NoRef
                THEN TxIdSeq[nextLogId] ELSE sharedTransactionId
        createdAt == now
        idOf(i) == LogIdSeq[nextLogId + i - 1]
    IN  [id \in {idOf(i) : i \in 1..Len(events)} |->
            LET i == CHOOSE j \in 1..Len(events) : idOf(j) = id
                params == events[i]
                transactionId == IF params.transactionId = NoRef
                                 THEN txId ELSE params.transactionId
            IN  LoggedRow(id, transactionId, params, ctx, createdAt)]

LogEvents(events, ctx, sharedTransactionId) ==
    /\ nextLogId + Len(events) - 1 <= MaxLogs
    /\ IF Len(events) = 0
       THEN /\ UNCHANGED <<event_logs, nextLogId>>
            /\ audit' = AuditDone("logEvents", TRUE)
       ELSE \/ /\ event_logs' =
                     LogEventsRows(events, ctx, sharedTransactionId)
                         @@ event_logs
               /\ nextLogId' = nextLogId + Len(events)
               /\ audit' = AuditDone("logEvents", TRUE)
            \/ /\ UNCHANGED <<event_logs, nextLogId>>
               /\ audit' = AuditDone("logEvents", FALSE)
    /\ UNCHANGED writes
    /\ AuditFrame

(* hashVerdicts that marks every selected row as matching: C19 depends *)
(* on the comparison of the stored hash with the recomputed one        *)
hashVerdicts_noCompare(tbl, batch) ==
    [id \in batch |-> SqlBool(TRUE)]

(* u.hash = u.computed_hash, per selected row *)
hashVerdicts(tbl, batch) ==
    [id \in batch |-> SqlBool(tbl[id].hash = computed_hash(id, tbl[id]))]

(* SET hash_verified = (u.hash = u.computed_hash) ... WHERE e.id = u.id *)
verifiedRows(tbl, verdicts) ==
    [id \in DOMAIN verdicts |->
        [tbl[id] EXCEPT !.hash_verified = verdicts[id]]]

(* total and failed are counted over the rows the UPDATE returned *)
verifyResult(verdicts) ==
    LET total == Cardinality(DOMAIN verdicts)
        failed == Cardinality({id \in DOMAIN verdicts :
                                  verdicts[id] = SqlBool(FALSE)})
    IN  [verified |-> total - failed, failed |-> failed]

(* EventLog.verifyHashes, run with no other run in between: one statement *)
(* that selects at most LIMIT rows whose hash_verified is null and sets   *)
(* it to (hash = computed_hash)                                           *)
VerifyHashes ==
    /\ \E batch \in LimitedBatches(unverified(event_logs), LIMIT) :
          LET verdicts == hashVerdicts(event_logs, batch)
              r == UpdateRows(event_logs, verifiedRows(event_logs, verdicts))
          IN  /\ event_logs' = r.rows
              /\ audit' = [audit EXCEPT !.op = "verifyHashes", !.ok = r.ok,
                                        !.returned = verifyResult(verdicts)]
    /\ UNCHANGED <<nextLogId, writes>>
    /\ AuditFrame

(* A run that overlaps others: its SELECT reads the snapshot taken when *)
(* the statement starts (no row lock is taken) ...                      *)
VerifySnapshot ==
    /\ ~audit.pending
    /\ \E batch \in LimitedBatches(unverified(event_logs), LIMIT) :
          audit' = [audit EXCEPT !.pending = TRUE,
                                 !.snapshot = hashVerdicts(event_logs, batch)]
    /\ UNCHANGED <<event_logs, nextLogId, writes>>
    /\ AuditFrame

(* ... and its UPDATE joins on the id alone, so it writes every row it *)
(* selected, whatever their hash_verified has become in the meantime   *)
VerifyApply ==
    /\ audit.pending
    /\ LET r == UpdateRows(event_logs,
                           verifiedRows(event_logs, audit.snapshot))
       IN  /\ event_logs' = r.rows
           /\ audit' = [audit EXCEPT !.op = "verifyHashes", !.ok = r.ok,
                                     !.returned = verifyResult(audit.snapshot),
                                     !.pending = FALSE,
                                     !.snapshot = EmptyTable]
    /\ UNCHANGED <<nextLogId, writes>>
    /\ AuditFrame

(* UPDATE event_logs SET col = value WHERE id = ..., by any database role *)
DirectAssignments ==
    {<<"hash_verified", SqlNull>>, <<"hash_verified", SqlBool(TRUE)>>,
     <<"hash_verified", SqlBool(FALSE)>>,
     <<"metadata", "{\"m\":2}">>,
     <<"changes", "{\"a\":2}">>,
     <<"action_type", "VIEW">>,
     <<"table_name", "events">>,
     <<"row_id", "r1">>,
     <<"transaction_id", "t9">>,
     <<"ip_address", "10.0.0.9">>,
     <<"hash", <<>> >>,
     <<"created_at", 0>>}

DirectUpdate(id, col, value) ==
    /\ writes < MaxWrites
    /\ id \in DOMAIN event_logs
    /\ LET r == UpdateRows(event_logs,
                    (id :> [event_logs[id] EXCEPT ![col] = value]))
       IN  /\ event_logs' = r.rows
           /\ audit' = AuditDone("update", r.ok)
    /\ writes' = writes + 1
    /\ UNCHANGED nextLogId
    /\ AuditFrame

(* DELETE FROM event_logs WHERE id = ... *)
DirectDelete(id) ==
    /\ writes < MaxWrites
    /\ id \in DOMAIN event_logs
    /\ LET r == DeleteRows(event_logs, {id})
       IN  /\ event_logs' = r.rows
           /\ audit' = AuditDone("delete", r.ok)
    /\ writes' = writes + 1
    /\ UNCHANGED nextLogId
    /\ AuditFrame

(* EventLog.Sync.deleteFromDelta: returns without touching the table *)
LogDeleteFromDelta(id) ==
    /\ audit' = AuditDone("deleteFromDelta", TRUE)
    /\ UNCHANGED <<event_logs, nextLogId, writes>>
    /\ AuditFrame

(* EventLog.archiveOldLogs: COPY (SELECT ...) TO a file; the table is read *)
archiveOldLogs(tbl, olderThan) ==
    {id \in DOMAIN tbl : tbl[id].created_at < olderThan}

ArchiveOldLogs(olderThan) ==
    /\ archiveOldLogs(event_logs, olderThan) \subseteq DOMAIN event_logs
    /\ audit' = AuditDone("archiveOldLogs", TRUE)
    /\ UNCHANGED <<event_logs, nextLogId, writes>>
    /\ AuditFrame

InitAudit ==
    /\ InitCommon
    /\ env = "unset"
    /\ users = {"u1"}

(* the event lists logEvents is called with: up to two events *)
LogEventsParams ==
    [actionType : ActionTypes, tableName : LoggedTables, rowId : LoggedRowIds,
     changes : {"{}"}, transactionId : TransactionIds, metadata : {NoRef}]

LogEventsLists ==
    {<<>>} \cup {<<e>> : e \in LogEventsParams}
           \cup {<<e, f>> : e \in LogEventsParams, f \in LogEventsParams}

SharedTransactionIds == {NoRef, "t2"}

(* the logEvent calls made next to verification runs: the arguments *)
(* that reach the hash                                              *)
AuditParams ==
    [actionType : ActionTypes, tableName : LoggedTables, rowId : LoggedRowIds,
     changes : Changes, transactionId : {NoRef}, metadata : {NoRef}]

NextAudit ==
    \/ Tick
    \/ \E params \in AuditParams : \E ctx \in RequestContexts :
          LogEvent(params, ctx)
    \/ \E events \in LogEventsLists : \E shared \in SharedTransactionIds :
          LogEvents(events, [ipAddress |-> NoRef], shared)
    \/ \E eventLog \in MobileEventLogs : InsertFromSync(eventLog)
    \/ VerifyHashes
    \/ VerifySnapshot
    \/ VerifyApply

SpecAudit == InitAudit /\ [][NextAudit]_vars

(* The storage layer under direct statements, next to the operations *)
StorageParams ==
    [actionType : ActionTypes, tableName : LoggedTables, rowId : LoggedRowIds,
     changes : {"{}"}, transactionId : {NoRef}, metadata : {NoRef}]

NextStorage ==
    \/ \E params \in StorageParams : LogEvent(params, [ipAddress |-> NoRef])
    \/ \E eventLog \in MobileEventLogs : InsertFromSync(eventLog)
    \/ VerifyHashes
    \/ \E id \in DOMAIN event_logs : \E a \in DirectAssignments :
          DirectUpdate(id, a[1], a[2])
    \/ \E id \in DOMAIN event_logs : DirectDelete(id)
    \/ \E id \in MobileLogIds : LogDeleteFromDelta(id)
    \/ \E olderThan \in 1..now : ArchiveOldLogs(olderThan)

SpecStorage == InitAudit /\ [][NextStorage]_vars

(* C10: a logEvent call adds exactly one row to event_logs, and that row *)
(* has hash_verified null right after the insert, so it is among the     *)
(* rows the next verification run selects.                               *)
C10_LogEventUnverified ==
    [][\A params \in LogEventParams : \A ctx \in RequestContexts :
          LogEvent(params, ctx)
          => \E id \in DOMAIN event_logs' :
                /\ id \notin DOMAIN event_logs
                /\ DOMAIN event_logs' = DOMAIN event_logs \cup {id}
                /\ event_logs'[id].hash_verified = SqlNull
                /\ id \in unverified(event_logs')]_vars

----------------------------------------------------------------------------
(* The push: Sync.persistClientChanges, one step per await *)

MaxAttempts == 2

(* pushTableNameModelMap is a plain object: a key that is no own property *)
(* is looked up on Object.prototype.  The value is the entity (named by   *)
(* its table), an inherited member, or undefined.                         *)
ObjectPrototypeKeys == {"constructor"}

pushTableNameModelMap(tableName) ==
    IF tableName \in Range(ENTITIES_TO_PULL_FROM_MOBILE)
    THEN tableName
    ELSE IF tableName \in ObjectPrototypeKeys
         THEN "Object.prototype." \o tableName
         ELSE "undefined"

Truthy(value) == value # "undefined"
(* whether value.Table is defined, so that value.Table.columns can be read *)
HasTable(value) == value \in Range(ENTITIES_TO_PULL_FROM_MOBILE)

(* what the stored state is compared on: per table the client's rows with  *)
(* their client-writable values and deleted flags, and the number of rows  *)
(* under server-generated ids                                              *)
Ref(visitId) == IF visitId \in GenIds THEN "generated" ELSE visitId

StoredState(d) ==
    [t \in Range(ENTITIES_TO_PULL_FROM_MOBILE) |->
        [rows |-> {<<id, d[t][id].val, d[t][id].is_deleted,
                     Ref(d[t][id].visit_id)>> : id \in (DOMAIN d[t]) \ GenIds},
         generated |-> Cardinality((DOMAIN d[t]) \cap GenIds)]]

(* The request entries a device sends.  The records carry known columns   *)
(* only and no epoch numbers, so the cleaning step leaves them as they are *)
ClientRecord(id, visitId) ==
    [id |-> id, val |-> "a", is_deleted |-> FALSE, deleted_at |-> NULL,
     visit_id |-> visitId]

PushEntry(tableName, created, deleted) ==
    [tableName |-> tableName, created |-> created, updated |-> <<>>,
     deleted |-> deleted]

(* an audit entry written on the device, hashed there over its own fields *)
PushedEventLog ==
    [id |-> "m1", transaction_id |-> "t1", action_type |-> "UPDATE",
     table_name |-> "visits", row_id |-> "v1",
     changes |-> "{}", ip_address |-> NoRef,
     hash |-> <<"m1", "t1", "UPDATE", "visits", "v1", "{}", "", 1>>,
     hash_verified |-> SqlNull, metadata |-> "{}", created_at |-> 1]

PushEntries ==
    {PushEntry("event_logs", <<PushedEventLog>>, <<>>),
     PushEntry("visits", <<ClientRecord("v1", NoRef)>>, <<>>),
     PushEntry("visits", <<>>, <<"v1">>),
     PushEntry("events", <<ClientRecord("r1", NoRef)>>, <<>>),
     PushEntry("events", <<ClientRecord("r1", "v1")>>, <<"r1">>),
     PushEntry("prescriptions", <<ClientRecord("r1", "v1")>>, <<>>),
     PushEntry("patient_problems", <<ClientRecord("r1", NoRef)>>, <<"r1">>),
     PushEntry("foo_bar", <<ClientRecord("r1", NoRef)>>, <<>>),
     PushEntry("constructor", <<ClientRecord("r1", NoRef)>>, <<>>)}

(* Object.entries(data): the keys of one request are distinct *)
PushRequests ==
    {<<e>> : e \in PushEntries}
        \cup {<<e, f>> : e \in PushEntries,
                         f \in {g \in PushEntries : TRUE}}

DistinctKeys(request) ==
    \A i \in 1..Len(request) : \A j \in 1..Len(request) :
        i # j => request[i].tableName # request[j].tableName

Records(entry) == entry.created \o entry.updated
Steps(entry) == Len(Records(entry)) + Len(entry.deleted)

(* One uninterrupted run of persistClientChanges on d, as a function *)
RECURSIVE ApplyRecords(_, _, _, _, _)
ApplyRecords(d, t, us, tableName, records) ==
    IF records = <<>>
    THEN d
    ELSE ApplyRecords(upsertFromDelta(d, t, us, tableName, Head(records)),
                      t, us, tableName, Tail(records))

RECURSIVE ApplyDeletes(_, _, _, _)
ApplyDeletes(d, t, tableName, ids) ==
    IF ids = <<>>
    THEN d
    ELSE ApplyDeletes(deleteFromDelta(d, t, tableName, Head(ids)),
                      t, tableName, Tail(ids))

RECURSIVE persistClientChanges(_, _, _, _)
persistClientChanges(d, t, us, data) ==
    IF data = <<>>
    THEN d
    ELSE LET entry == Head(data)
             d1 == IF HasTable(pushTableNameModelMap(entry.tableName))
                   THEN ApplyDeletes(
                            ApplyRecords(d, t, us, entry.tableName,
                                         Records(entry)),
                            t, entry.tableName, entry.deleted)
                   ELSE d
         IN  persistClientChanges(d1, t, us, Tail(data))

PushFrame == UNCHANGED <<now, env, users, extra, writes, pull, result,
                         event_logs, nextLogId, audit, web, clean, store, removed>>

PushEntryNow == push.request[push.k]

(* the call: a device submits a request *)
PushStart(request) ==
    /\ push.pc = "idle"
    /\ push' = [IdlePush EXCEPT !.pc = "key", !.request = request, !.k = 1,
                                !.db0 = db, !.attempts = 1]
    /\ UNCHANGED db
    /\ PushFrame

(* lines 315-318: the lookup is falsy, the key is logged and skipped *)
PushSkipUnknown ==
    /\ push.pc = "key" /\ push.k <= Len(push.request)
    /\ ~Truthy(pushTableNameModelMap(PushEntryNow.tableName))
    /\ push' = [push EXCEPT !.k = @ + 1]
    /\ UNCHANGED db
    /\ PushFrame

(* lines 320-328: the delta is read and the known columns are collected *)
PushBeginTable ==
    /\ push.pc = "key" /\ push.k <= Len(push.request)
    /\ Truthy(pushTableNameModelMap(PushEntryNow.tableName))
    /\ HasTable(pushTableNameModelMap(PushEntryNow.tableName))
    /\ push' = [push EXCEPT !.pc = "records", !.s = 1]
    /\ UNCHANGED db
    /\ PushFrame

(* line 328 on an inherited member: `.Table` is undefined and reading *)
(* `.columns` of it throws a TypeError out of persistClientChanges    *)
PushTypeError ==
    /\ push.pc = "key" /\ push.k <= Len(push.request)
    /\ Truthy(pushTableNameModelMap(PushEntryNow.tableName))
    /\ ~HasTable(pushTableNameModelMap(PushEntryNow.tableName))
    /\ push' = [push EXCEPT !.pc = "failed", !.error = "TypeError"]
    /\ UNCHANGED db
    /\ PushFrame

(* lines 330-354: one record of created.concat(updated) is upserted *)
PushUpsert ==
    /\ push.pc = "records" /\ push.s <= Len(Records(PushEntryNow))
    /\ LET record == Records(PushEntryNow)[push.s]
           tableName == PushEntryNow.tableName
       IN  /\ NeedsFreshVisit(db, users, tableName, record)
                 => HasFreshId(db["visits"])
           /\ db' = upsertFromDelta(db, now, users, tableName, record)
    /\ push' = [push EXCEPT !.s = @ + 1]
    /\ PushFrame

(* the two loops of one table in the other order, the ids of `deleted` *)
(* before the records: C35 depends on the order of the loops           *)
PushDelete_beforeUpserts ==
    /\ push.pc = "records" /\ push.s = 1
    /\ HasFreshId(db["visits"])
    /\ db' = ApplyRecords(ApplyDeletes(db, now, PushEntryNow.tableName,
                                       PushEntryNow.deleted),
                          now, users, PushEntryNow.tableName,
                          Records(PushEntryNow))
    /\ push' = [push EXCEPT !.s = Steps(PushEntryNow) + 1]
    /\ PushFrame

(* lines 356-359: one id of `deleted` is soft-deleted *)
PushDelete ==
    /\ push.pc = "records"
    /\ push.s > Len(Records(PushEntryNow))
    /\ push.s <= Steps(PushEntryNow)
    /\ db' = deleteFromDelta(db, now, PushEntryNow.tableName,
                 PushEntryNow.deleted[push.s - Len(Records(PushEntryNow))])
    /\ push' = [push EXCEPT !.s = @ + 1]
    /\ PushFrame

(* an adapter call rejects (constraint, connection): nothing of a single *)
(* statement or transaction is kept; Event.API.save runs two statements  *)
(* outside a transaction, so its visit may stay when the event fails     *)
PushAdapterThrows ==
    /\ push.pc = "records" /\ push.s <= Steps(PushEntryNow)
    /\ \/ UNCHANGED db
       \/ /\ PushEntryNow.tableName = "events"
          /\ push.s <= Len(Records(PushEntryNow))
          /\ LET event == Records(PushEntryNow)[push.s]
             IN  /\ ~Event_visitExists(db, event) /\ users # {}
                 /\ NeedsFreshVisit(db, users, "events", event)
                       => HasFreshId(db["visits"])
                 /\ db' = Event_withVisit(db, now, users, event)
    /\ push' = [push EXCEPT !.pc = "failed", !.error = "adapter"]
    /\ PushFrame

(* the inner loops are over: on to the next key *)
PushEndTable ==
    /\ push.pc = "records" /\ push.s > Steps(PushEntryNow)
    /\ push' = [push EXCEPT !.pc = "key", !.k = @ + 1, !.s = 0]
    /\ UNCHANGED db
    /\ PushFrame

(* line 361: the promise resolves *)
PushFinish ==
    /\ push.pc = "key" /\ push.k > Len(push.request)
    /\ push' = [push EXCEPT !.pc = "done", !.completed = @ + 1,
                            !.once = IF push.completed = 0
                                     THEN StoredState(db) ELSE @]
    /\ UNCHANGED db
    /\ PushFrame

(* the device submits the identical request again *)
PushRetry ==
    /\ push.pc \in {"done", "failed"}
    /\ push.attempts < MaxAttempts
    /\ push' = [push EXCEPT !.pc = "key", !.k = 1, !.s = 0,
                            !.error = "none", !.attempts = @ + 1,
                            !.failures = IF push.pc = "failed"
                                         THEN @ + 1 ELSE @]
    /\ UNCHANGED db
    /\ PushFrame

InitPush ==
    /\ InitCommon
    /\ env = "unset"
    /\ users \in {{}, {"u1"}}

NextPush ==
    \/ Tick
    \/ \E request \in PushRequests :
          DistinctKeys(request) /\ PushStart(request)
    \/ PushSkipUnknown
    \/ PushBeginTable
    \/ PushTypeError
    \/ PushUpsert
    \/ PushDelete
    \/ PushAdapterThrows
    \/ PushEndTable
    \/ PushFinish
    \/ PushRetry

SpecPush == InitPush /\ [][NextPush]_vars

(* C5: a request applied twice, each run completing, leaves the stored  *)
(* state that one application left: the same rows in every table with  *)
(* the same values and deleted flags, and no further generated row.     *)
C5_PushIdempotent ==
    (push.pc = "done" /\ push.completed = 2 /\ push.failures = 0)
        => StoredState(db) = push.once

(* C6: when a run failed partway and the identical request is submitted *)
(* again until a run completes, the stored state is the one that a      *)
(* single uninterrupted run on the original state gives.                *)
C6_SafeRetry ==
    (push.pc = "done" /\ push.completed = 1 /\ push.failures > 0)
        => StoredState(db)
             = StoredState(persistClientChanges(push.db0, now, users,
                                                push.request))

(* C7: a key that names no push-eligible table raises no error and      *)
(* writes nothing, and the other keys of the request are processed as   *)
(* if it were absent, wherever in the request it stands.                *)
C7_KnownOnly(request) ==
    SelectSeq(request,
              LAMBDA e : e.tableName \in Range(ENTITIES_TO_PULL_FROM_MOBILE))

C7_UnknownKeySkipped ==
    /\ push.error # "TypeError"
    /\ (push.pc = "done" /\ push.attempts = 1
        /\ C7_KnownOnly(push.request) # push.request)
          => StoredState(db)
               = StoredState(persistClientChanges(push.db0, now, users,
                                 C7_KnownOnly(push.request)))

----------------------------------------------------------------------------
(* Claims about the audit log *)

ServerLogIds == Range(LogIdSeq)

(* C11: for every row that logEvent or logEvents wrote and nobody altered, *)
(* the digest the verification job recomputes from the stored columns is   *)
(* the stored hash, so a verification run marks the row true, never false. *)
C11_HashIntegrity ==
    \A id \in (DOMAIN event_logs) \cap ServerLogIds :
        computed_hash(id, event_logs[id]) = event_logs[id].hash


(* C12: the hash covers every field of an entry but hashVerified: two    *)
(* logEvent calls that differ in one argument only (metadata included)   *)
(* store different hashes, and a stored row in which a field other than  *)
(* hashVerified was altered is computed as a mismatch by verification.   *)
C12_TamperEvidence ==
    [][/\ \A p \in LogEventParams : \A q \in LogEventParams :
          \A ctx \in RequestContexts :
             p # q => LoggedRow("l1", "t1", p, ctx, 1).hash
                        # LoggedRow("l1", "t1", q, ctx, 1).hash
       /\ \A id \in DOMAIN event_logs : \A a \in DirectAssignments :
             (/\ DirectUpdate(id, a[1], a[2])
              /\ a[1] # "hash_verified"
              /\ event_logs'[id] # event_logs[id])
             => hashVerdicts(event_logs', {id})[id] = SqlBool(FALSE)]_vars


(* C13: once hashVerified of a row is true or false it never changes     *)
(* again, whatever operation or accepted direct UPDATE acts on the row.  *)
C13_VerifiedSetOnce ==
    [][\A id \in (DOMAIN event_logs) \cap (DOMAIN event_logs') :
          event_logs[id].hash_verified # SqlNull
          => event_logs'[id].hash_verified = event_logs[id].hash_verified]_vars

(* C14: an UPDATE of a stored row that assigns a column other than       *)
(* hash_verified (metadata included) leaves the table as it was.         *)
C14_StorageImmutable ==
    [][\A id \in DOMAIN event_logs : \A a \in DirectAssignments :
          (DirectUpdate(id, a[1], a[2]) /\ a[1] # "hash_verified")
          => event_logs' = event_logs]_vars


(* C15: no step removes a row of event_logs: a DELETE is rejected by the *)
(* trigger, deleteFromDelta changes nothing, archiveOldLogs only reads.  *)
C15_NeverShrinks ==
    [][/\ DOMAIN event_logs \subseteq DOMAIN event_logs'
       /\ \A id \in DOMAIN event_logs :
             /\ DirectDelete(id) => ~audit'.ok
             /\ LogDeleteFromDelta(id) => event_logs' = event_logs]_vars

(* a DELETE was attempted on a stored row and raised; the row is there *)
C15_Witness ==
    /\ audit.op = "delete"
    /\ ~audit.ok
    /\ event_logs # EmptyTable


(* C16: a logEvents call with n >= 1 entries adds n rows with distinct   *)
(* new ids or adds none; the rows of entries without a transactionId of  *)
(* their own carry one transaction id (the shared one when given, else   *)
(* one not used before), all added rows carry one createdAt, stored rows *)
(* are kept, and a call with no entries leaves the table as it was.      *)
C16_LogEventsAtomic ==
    [][\A events \in LogEventsLists : \A ctx \in RequestContexts :
       \A shared \in SharedTransactionIds :
          LogEvents(events, ctx, shared) =>
             LET n == Len(events)
                 added == (DOMAIN event_logs') \ (DOMAIN event_logs)
                 rowOf(i) == event_logs'[LogIdSeq[nextLogId + i - 1]]
                 used == {event_logs[id].transaction_id :
                             id \in DOMAIN event_logs}
             IN  /\ \A id \in DOMAIN event_logs :
                       /\ id \in DOMAIN event_logs'
                       /\ event_logs'[id] = event_logs[id]
                 /\ n = 0 => added = {}
                 /\ added = {} \/ Cardinality(added) = n
                 /\ added # {} =>
                       /\ added = {LogIdSeq[nextLogId + i - 1] : i \in 1..n}
                       /\ \A i \in 1..n : \A j \in 1..n :
                             /\ rowOf(i).created_at = rowOf(j).created_at
                             /\ (/\ events[i].transactionId = NoRef
                                 /\ events[j].transactionId = NoRef)
                                => rowOf(i).transaction_id
                                      = rowOf(j).transaction_id
                       /\ \A i \in 1..n :
                             /\ events[i].transactionId # NoRef
                                => rowOf(i).transaction_id
                                      = events[i].transactionId
                             /\ (events[i].transactionId = NoRef
                                 /\ shared # NoRef)
                                => rowOf(i).transaction_id = shared
                             /\ (events[i].transactionId = NoRef
                                 /\ shared = NoRef)
                                => rowOf(i).transaction_id \notin used]_vars

(* a logEvents call with two entries and no shared id has stored two rows *)
(* under one generated transaction id                                     *)
C16_Witness ==
    /\ audit.op = "logEvents"
    /\ audit.ok
    /\ {"l1", "l2"} \subseteq DOMAIN event_logs
    /\ event_logs["l1"].transaction_id = event_logs["l2"].transaction_id
    /\ event_logs["l1"].transaction_id \in Range(TxIdSeq)


C18_NoDoubleProcessing ==
    [][VerifyApply =>
          \A id \in DOMAIN audit.snapshot :
             event_logs[id].hash_verified = SqlNull]_vars


(* C19: a verifyHashes run over unverified rows whose stored hash is not *)
(* the recomputed one ends without an exception, sets hash_verified of   *)
(* those rows to false, keeps their hash and every other column, and     *)
(* returns their number as `failed`.                                     *)
C19_MismatchRecorded ==
    [][VerifyHashes =>
          LET mismatched ==
                 {id \in unverified(event_logs) :
                     event_logs[id].hash
                        # computed_hash(id, event_logs[id])}
          IN  /\ audit'.ok
              /\ audit'.returned.failed = Cardinality(mismatched)
              /\ \A id \in mismatched :
                    event_logs'[id] =
                       [event_logs[id] EXCEPT
                           !.hash_verified = SqlBool(FALSE)]]_vars

(* a run has found the pushed row's hash wrong and counted it *)
C19_Witness ==
    /\ audit.op = "verifyHashes"
    /\ audit.ok
    /\ audit.returned.failed = 1
    /\ "m1" \in DOMAIN event_logs
    /\ event_logs["m1"].hash # computed_hash("m1", event_logs["m1"])
    /\ event_logs["m1"].hash_verified = SqlBool(FALSE)


----------------------------------------------------------------------------
(* Pulls next to a growing audit log *)

NextAuditPull ==
    \/ Tick
    \/ \E params \in {p \in AuditParams : p.changes = "{}"} :
          LogEvent(params, [ipAddress |-> NoRef])
    \/ \E eventLog \in {l \in MobileEventLogs : l.hash # <<>>} :
          InsertFromSync(eventLog)
    \/ \E record \in ClientRecords("visits", now) : Upsert("visits", record)
    \/ \E lastSyncedAt \in 0..now : PullStart(lastSyncedAt)
    \/ PullCreated
    \/ PullUpdated
    \/ PullDeleted
    \/ PullExtraCreated
    \/ PullExtraUpdated
    \/ PullReturn

SpecAuditPull == InitAudit /\ [][NextAuditPull]_vars

(* C20: at every point of a pull, the response built so far has no       *)
(* event_logs key, and no id listed under any key is the id of an audit  *)
(* row.                                                                  *)
C20_AuditNeverPulled ==
    /\ "event_logs" \notin DOMAIN result
    /\ \A k \in DOMAIN result :
          (result[k].created \cup result[k].updated \cup result[k].deleted)
             \cap DOMAIN event_logs = {}

(* a pull has built its whole response, with a visit in it, while the *)
(* audit log held a logged row and a pushed row                       *)
C20_Witness ==
    /\ pull.pc = "done"
    /\ result["visits"].created # {}
    /\ {"l1", "m1"} \subseteq DOMAIN event_logs


----------------------------------------------------------------------------
(* Claims about the push of audit entries *)

(* C21: when a push has completed, every audit entry the request carried *)
(* under the key event_logs is a row of the server's event_logs table.   *)
C21_EventLogsPushed ==
    push.pc = "done"
        => \A i \in 1..Len(push.request) :
              push.request[i].tableName = "event_logs"
                 => \A j \in 1..Len(Records(push.request[i])) :
                       Records(push.request[i])[j].id \in DOMAIN event_logs


(* C22: insertFromSync of an entry whose id is stored leaves the table   *)
(* as it was; of an entry with a new id it adds that one row, with the   *)
(* client's columns and hash_verified null whatever the client sent, and *)
(* keeps every stored row.                                               *)
C22_InsertFromSyncIdempotent ==
    [][\A eventLog \in MobileEventLogs :
          InsertFromSync(eventLog) =>
             IF eventLog.id \in DOMAIN event_logs
             THEN event_logs' = event_logs
             ELSE /\ DOMAIN event_logs' = DOMAIN event_logs \cup {eventLog.id}
                  /\ \A id \in DOMAIN event_logs :
                        event_logs'[id] = event_logs[id]
                  /\ event_logs'[eventLog.id].hash_verified = SqlNull
                  /\ event_logs'[eventLog.id].hash = eventLog.hash]_vars

(* the last operation was an insertFromSync, and the pushed id holds a    *)
(* row that a verification run had marked: the insert met a stored id     *)
C22_Witness ==
    /\ audit.op = "insertFromSync"
    /\ "m1" \in DOMAIN event_logs
    /\ event_logs["m1"].hash_verified # SqlNull


----------------------------------------------------------------------------
(* Server functions: a data statement, then logAuditEvent *)

WebFrame ==
    UNCHANGED <<now, env, users, extra, pull, result, push, audit, clean,
                store, removed>>

(* logAuditEvent without its catch: C24 depends on the failure of the *)
(* insert being caught                                                *)
logAuditEvent_rethrow(tbl, params, ctx) ==
    {[threw |-> FALSE,
      rows |-> Put(tbl, uuidv7,
                   LoggedRow(uuidv7, TxIdSeq[nextLogId], params, ctx, now))],
     [threw |-> TRUE, rows |-> tbl]}

(* logAuditEvent: EventLog.logEvent inside try/catch.  The outcomes are *)
(* the table after the call and whether the call threw: the insert went *)
(* through, or it failed and the error was written to the console.      *)
logAuditEvent(tbl, params, ctx) ==
    {[threw |-> FALSE,
      rows |-> Put(tbl, uuidv7,
                   LoggedRow(uuidv7, TxIdSeq[nextLogId], params, ctx, now))],
     [threw |-> FALSE, rows |-> tbl]}

(* the parameters the server functions pass to logAuditEvent *)
AuditEventParams(actionType, tableName, rowId) ==
    [actionType |-> actionType, tableName |-> tableName, rowId |-> rowId,
     changes |-> "{}", transactionId |-> NoRef, metadata |-> NoRef]

(* what a handler returns after its data statement went through: thrown *)
(* errors of the try block end in `success: false`                      *)
WebReturn(op, id, o) ==
    [op |-> op, committed |-> TRUE, logged |-> o.rows # event_logs,
     success |-> ~o.threw, id |-> id]

WebFailed(op) ==
    [op |-> op, committed |-> FALSE, logged |-> FALSE, success |-> FALSE,
     id |-> NoRef]

(* createVisit: insert the visit under a new id, log, return the id *)
CreateVisit ==
    /\ writes < MaxWrites
    /\ nextLogId <= MaxLogs
    /\ HasFreshId(db["visits"])
    /\ LET visitId == uuidV1(db["visits"])
       IN  \/ /\ UNCHANGED <<db, event_logs, nextLogId>>
              /\ web' = WebFailed("createVisit")
           \/ \E ctx \in RequestContexts :
              \E o \in logAuditEvent(event_logs,
                          AuditEventParams("CREATE", "visits", visitId), ctx) :
                 /\ db' = [db EXCEPT !["visits"] =
                              Put(@, visitId,
                                  NewRow(now, "a", FALSE, NULL, NoRef))]
                 /\ event_logs' = o.rows
                 /\ nextLogId' = IF o.rows = event_logs
                                 THEN nextLogId ELSE nextLogId + 1
                 /\ web' = WebReturn("createVisit", visitId, o)
    /\ writes' = writes + 1
    /\ WebFrame

(* Event.API.updateFormData: form_data of the live row with that id *)
Event_updateFormData(d, t, id, formData) ==
    [d EXCEPT !["events"] =
        [r \in DOMAIN @ |->
            IF r = id /\ ~@[r].is_deleted
            THEN [@[r] EXCEPT !.val = formData, !.last_modified = t]
            ELSE @[r]]]

(* updateEvent: update the form data, log, return *)
UpdateEvent(id, formData) ==
    /\ writes < MaxWrites
    /\ nextLogId <= MaxLogs
    /\ \/ /\ UNCHANGED <<db, event_logs, nextLogId>>
          /\ web' = WebFailed("updateEvent")
       \/ \E ctx \in RequestContexts :
          \E o \in logAuditEvent(event_logs,
                      AuditEventParams("UPDATE", "events", id), ctx) :
             /\ db' = Event_updateFormData(db, now, id, formData)
             /\ event_logs' = o.rows
             /\ nextLogId' = IF o.rows = event_logs
                             THEN nextLogId ELSE nextLogId + 1
             /\ web' = WebReturn("updateEvent", id, o)
    /\ writes' = writes + 1
    /\ WebFrame

FormDatas == {"b"}

NextWeb ==
    \/ Tick
    \/ \E record \in ClientRecords("events", now) : Upsert("events", record)
    \/ CreateVisit
    \/ \E id \in RowIds : \E formData \in FormDatas : UpdateEvent(id, formData)

SpecWeb == InitAudit /\ [][NextWeb]_vars

(* C24: when the data statement of createVisit or updateEvent went      *)
(* through and the audit insert failed, the handler returns success, the *)
(* audit table is as it was, and the data change is in the tables.       *)
C24_AuditFailureContained ==
    [][((CreateVisit \/ \E id \in RowIds : \E formData \in FormDatas :
                           UpdateEvent(id, formData))
        /\ web'.committed /\ ~web'.logged)
       => /\ web'.success
          /\ event_logs' = event_logs
          /\ web'.op = "createVisit"
                => /\ web'.id \notin DOMAIN db["visits"]
                   /\ web'.id \in DOMAIN db'["visits"]
          /\ web'.op = "updateEvent"
                => \E formData \in FormDatas :
                      db' = Event_updateFormData(db, now, web'.id,
                                                 formData)]_vars

(* createVisit has returned success for a stored visit that no audit *)
(* entry names                                                       *)
C24_Witness ==
    /\ web.op = "createVisit"
    /\ web.committed /\ ~web.logged /\ web.success
    /\ web.id \in DOMAIN db["visits"]
    /\ \A l \in DOMAIN event_logs : event_logs[l].row_id # web.id


(* an audit entry names the row id of the table tableName *)
Audited(tableName, id) ==
    \E l \in DOMAIN event_logs :
        /\ event_logs[l].table_name = tableName
        /\ event_logs[l].row_id = id

(* C23: when a push has completed, every row it upserted or deleted in a *)
(* push-eligible table is named, with its table, by an audit entry.      *)
C23_MutationsAudited ==
    push.pc = "done"
        => \A i \in 1..Len(push.request) :
              LET entry == push.request[i]
                  tableName == entry.tableName
              IN  tableName \in Range(ENTITIES_TO_PULL_FROM_MOBILE)
                     => /\ \A j \in 1..Len(Records(entry)) :
                              Records(entry)[j].id \in DOMAIN db[tableName]
                                 => Audited(tableName, Records(entry)[j].id)
                        /\ \A j \in 1..Len(entry.deleted) :
                              (/\ entry.deleted[j] \in DOMAIN db[tableName]
                               /\ db[tableName][entry.deleted[j]].is_deleted)
                                 => Audited(tableName, entry.deleted[j])


(* C25: a push completes only when every record it carried for a        *)
(* push-eligible table is stored: a record an adapter did not persist   *)
(* makes the push fail.                                                 *)
C25_UnpersistedRejects ==
    push.pc = "done"
        => \A i \in 1..Len(push.request) :
              LET entry == push.request[i]
              IN  entry.tableName \in Range(ENTITIES_TO_PULL_FROM_MOBILE)
                     => \A j \in 1..Len(Records(entry)) :
                           Records(entry)[j].id \in DOMAIN db[entry.tableName]


----------------------------------------------------------------------------
(* The cleaning of a pushed record (persistClientChanges, lines 330-353) *)

(* A field value of a pushed record, as JavaScript sees it:               *)
(*   kind    "null", "boolean", "string" or "number"                      *)
(*   lit     the literal of a short value ("a", "0", "false"), else ""    *)
(*   digits  the number of digits of a non-negative integer or of an      *)
(*           all-digit string, else 0                                     *)
(*   at      the instant the value denotes as a date (an ISO string, or   *)
(*           an epoch number as toSafeDateString reads it), else NULL     *)
JsNull == [kind |-> "null", lit |-> "", digits |-> 0, at |-> NULL]
JsBoolean(b) ==
    [kind |-> "boolean", lit |-> IF b THEN "true" ELSE "false",
     digits |-> 0, at |-> NULL]
JsString(s) == [kind |-> "string", lit |-> s, digits |-> 0, at |-> NULL]
IsoString(t) == [kind |-> "string", lit |-> "", digits |-> 0, at |-> t]
Zero(kind) == [kind |-> kind, lit |-> "0", digits |-> 1, at |-> 0]
Digits(kind, n, t) == [kind |-> kind, lit |-> "", digits |-> n, at |-> t]

(* a year outside 1850..2120, e.g. the ten digits of a phone number read *)
(* as epoch seconds                                                      *)
YearOutOfRange == 99

(* /^\d{10,13}$/ on a string; > 1e9 and < 1e14 on a number *)
isEpochTimestamp(value) ==
    \/ value.kind = "string" /\ value.digits \in 10..13
    \/ value.kind = "number" /\ value.digits \in 10..14

(* name.endsWith(suffix), on the column names that occur *)
EndsWith(name, suffix) ==
    CASE suffix = "_at" ->
             name \in {"deleted_at", "created_at", "updated_at",
                       "server_created_at"}
      [] suffix = "_date" -> name \in {"onset_date", "end_date"}

isDateColumn(name) ==
    \/ EndsWith(name, "_at")
    \/ EndsWith(name, "_date")
    \/ name = "timestamp"
    \/ name = "last_modified"

(* toSafeDateString: the ISO string of the instant an epoch number or a *)
(* date string denotes; of the current time for a value that is no date *)
(* or whose year is out of range                                        *)
toSafeDateString(value, nowAt) ==
    IF value.at = NULL \/ value.at = YearOutOfRange
    THEN IsoString(nowAt)
    ELSE IsoString(value.at)

(* Object.keys(entity.Table.columns); `val` stands for the plain columns *)
knownColumns(tableName) ==
    {"id", "val", "is_deleted", "deleted_at", "last_modified", "onset_date"}
        \cup (IF tableName = "prescriptions"
              THEN {"visit_id", "filled_at"}
              ELSE {})

(* the map step without the date-column test on the zero case: C28 *)
(* depends on isDateColumn(key)                                    *)
cleanValue_zeroAnywhere(key, value, nowAt) ==
    IF isEpochTimestamp(value)
    THEN toSafeDateString(value, nowAt)
    ELSE IF value = Zero("number") \/ value = Zero("string")
         THEN JsNull
         ELSE value

(* the .map step: one [key, value] pair of the record *)
cleanValue(key, value, nowAt) ==
    IF isEpochTimestamp(value)
    THEN toSafeDateString(value, nowAt)
    ELSE IF (value = Zero("number") \/ value = Zero("string"))
            /\ isDateColumn(key)
         THEN JsNull
         ELSE value

(* the record with no key filtered out: C26 depends on the filter *)
cleaned_noFilter(tableName, record, nowAt) ==
    [key \in DOMAIN record |-> cleanValue(key, record[key], nowAt)]

(* Object.fromEntries(Object.entries(record).filter(...).map(...)) *)
cleaned(tableName, record, nowAt) ==
    [key \in (DOMAIN record) \cap knownColumns(tableName) |->
        cleanValue(key, record[key], nowAt)]

(* what Postgres stores in a timestamptz column for the value bound to it *)
timestamptz(value) == IF value.kind = "null" THEN NULL ELSE value.at

(* the fields of the cleaned record the adapters read *)
AdapterRecord(record) ==
    [id |-> record["id"].lit,
     val |-> record["val"],
     is_deleted |-> record["is_deleted"].lit = "true",
     deleted_at |-> timestamptz(record["deleted_at"]),
     visit_id |-> IF "visit_id" \in DOMAIN record
                  THEN record["visit_id"].lit
                  ELSE NoRef,
     filled_at |-> IF "filled_at" \in DOMAIN record
                   THEN timestamptz(record["filled_at"])
                   ELSE NULL]

(* The records a device pushes: the known columns, last_modified or not, *)
(* and WatermelonDB's bookkeeping fields or not                          *)
PushedVals ==
    {JsString("a"), Zero("string"), Digits("string", 10, YearOutOfRange)}
PushedDates ==
    {JsNull, Zero("number"), Zero("string"), Digits("string", 13, 0),
     Digits("number", 13, 0), IsoString(0)}

PushedBase ==
    [{"id", "val", "is_deleted", "deleted_at"} ->
        PushedVals \cup PushedDates \cup {JsString("r1"), JsBoolean(FALSE)}]

PushedRecords ==
    LET base == {r \in PushedBase :
                    /\ r["id"] = JsString("r1")
                    /\ r["is_deleted"] = JsBoolean(FALSE)
                    /\ r["val"] \in PushedVals
                    /\ r["deleted_at"] \in {JsNull, Zero("number"),
                                           Digits("number", 13, 0)}}
        withDate == base \cup
                    {("last_modified" :> d) @@ r :
                        r \in base,
                        d \in {Zero("string"), Digits("string", 13, 0)}}
    IN  withDate \cup
        {("_status" :> JsString("created")) @@ ("_changed" :> JsString(""))
            @@ r : r \in withDate}

CleanTables == {"visits", "patient_problems"}

(* prescriptions a device pushes: written on a visit, filled or not yet *)
PushedPrescriptions ==
    [id : {JsString("r1")}, val : {JsString("a"), Zero("string")},
     is_deleted : {JsBoolean(FALSE)}, deleted_at : {JsNull},
     visit_id : {JsString("v1")},
     filled_at : {JsNull, Digits("number", 13, 0), IsoString(1)}]

(* persistClientChanges({[tableName]: {created: [record]}}): the lookup, *)
(* the cleaning and the upsert of the one record                         *)
PushRecord(tableName, record) ==
    /\ writes < MaxWrites
    /\ HasTable(pushTableNameModelMap(tableName))
    /\ LET c == cleaned(tableName, record, now)
       IN  /\ clean' = [tableName |-> tableName, record |-> record,
                        cleaned |-> c]
           /\ db' = upsertFromDelta(db, now, users, tableName,
                                    AdapterRecord(c))
    /\ writes' = writes + 1
    /\ UNCHANGED <<now, env, users, extra, pull, result, push,
                   event_logs, nextLogId, audit, web, store, removed>>

NextClean ==
    \/ Tick
    \/ \E tableName \in CleanTables : \E record \in PushedRecords :
          PushRecord(tableName, record)
    \/ \E record \in PushedPrescriptions : PushRecord("prescriptions", record)

SpecClean == InitAudit /\ [][NextClean]_vars


(* C26: the record handed to the adapter has exactly the keys of the     *)
(* pushed record that are known columns of the table: no unknown key is  *)
(* kept and no known key is dropped.                                     *)
C26_UnknownKeysStripped ==
    clean.tableName # "none"
        => /\ \A key \in DOMAIN clean.cleaned :
                 /\ key \in knownColumns(clean.tableName)
                 /\ key \in DOMAIN clean.record
           /\ \A key \in DOMAIN clean.record :
                 key \in knownColumns(clean.tableName)
                    => key \in DOMAIN clean.cleaned

(* a record with bookkeeping fields and last_modified has been cleaned *)
C26_Witness ==
    /\ clean.tableName = "visits"
    /\ {"_status", "_changed", "last_modified"} \subseteq DOMAIN clean.record
    /\ "last_modified" \in DOMAIN clean.cleaned

(* C27: the value of a known field whose name is not date-like reaches  *)
(* the adapter as the device sent it, whatever the value looks like.    *)
C27_OnlyDateFieldsConverted ==
    clean.tableName # "none"
        => \A key \in DOMAIN clean.cleaned :
              ~isDateColumn(key) => clean.cleaned[key] = clean.record[key]

(* C28: a field holding 0 or "0" reaches the adapter as null when its   *)
(* name is date-like and unchanged when it is not, and a deleted_at of  *)
(* 0 is stored as NULL.                                                  *)
C28_ZeroDateIsNull ==
    clean.tableName # "none"
        => /\ \A key \in DOMAIN clean.cleaned :
                 clean.record[key] \in {Zero("number"), Zero("string")}
                    => clean.cleaned[key] =
                          IF isDateColumn(key) THEN JsNull
                                               ELSE clean.record[key]
           /\ clean.record["deleted_at"] \in {Zero("number"), Zero("string")}
                 => db[clean.tableName]["r1"].deleted_at = NULL

(* a patient problem was pushed with deleted_at 0 and a plain field "0" *)
C28_Witness ==
    /\ clean.tableName = "patient_problems"
    /\ clean.record["deleted_at"] = Zero("number")
    /\ clean.record["val"] = Zero("string")
    /\ clean.cleaned["deleted_at"] = JsNull
    /\ db["patient_problems"]["r1"].val = Zero("string")

(* C29: a date-like field pushed as a 13-digit epoch number or string is *)
(* stored as the instant it denotes.                                     *)
C29_EpochPersisted ==
    clean.tableName # "none"
        => \A key \in (DOMAIN clean.record) \cap {"deleted_at", "last_modified"} :
              clean.record[key].digits = 13
                 => db[clean.tableName]["r1"][key] = clean.record[key].at

(* C30: after a push of a row, whether it inserted the row or met one *)
(* with the same id, the row exists and its client-written columns    *)
(* hold the values of that push.                                       *)
C30_LastWriteWins ==
    clean.tableName # "none"
        => LET tbl == db[clean.tableName]
               delta == AdapterRecord(clean.cleaned)
           IN  /\ "r1" \in DOMAIN tbl
               /\ tbl["r1"].val = delta.val
               /\ clean.tableName = "prescriptions"
                     => tbl["r1"].filled_at = delta.filled_at

----------------------------------------------------------------------------
(* Entity descriptors: Table.ALWAYS_PUSH_TO_MOBILE, false where the entity *)
(* does not declare it (entity.Table?.ALWAYS_PUSH_TO_MOBILE || false)      *)
ALWAYS_PUSH_TO_MOBILE(tableName) ==
    tableName \in {"visits", "user_clinic_permissions"}

(* C31: a pull returns every live row of an entity marked always-full-sync, *)
(* in created or updated, also the rows last written before the client's    *)
(* watermark.                                                               *)
C31_AlwaysFullSync ==
    [][\A t \in Tables :
          (/\ pull.pc = "deleted"
           /\ PullEntity = t
           /\ ALWAYS_PUSH_TO_MOBILE(t)
           /\ PullDeleted)
             => \A id \in DOMAIN db[t] :
                   (Live(db[t][id]) /\ db[t][id].last_modified < pull.lastSyncedAt)
                      => id \in result'[MobileName(t)].created
                                  \cup result'[MobileName(t)].updated]_vars

(* C32: the push never changes a table of an entity marked always-full-sync *)
(* while it applies that table's created, updated and deleted lists.        *)
C32_AlwaysPushedIsOneWay ==
    [][\A t \in Tables :
          (/\ ALWAYS_PUSH_TO_MOBILE(t)
           /\ push.pc = "records"
           /\ PushEntryNow.tableName = t)
             => db'[t] = db[t]]_vars


----------------------------------------------------------------------------
(* The form builder: eventFormStore and the translation helpers of EventForm *)

MaxEvents == 3

FORM_NAME_FIELD_ID == "__form_name__"
FORM_DESCRIPTION_FIELD_ID == "__form_description__"

FieldIds == {"f1", "f2"}
Langs == {"en", "ar"}
Texts == {"a", "b"}
OptionIds == {"o1"}

(* translations.find((t) => t.fieldId === fieldId) finds an entry *)
getFieldTranslation(translations, fieldId) ==
    \E i \in 1..Len(translations) : translations[i].fieldId = fieldId

(* upsertFieldTranslation without the lookup of an existing entry: C33 *)
(* depends on the update in place                                      *)
upsertFieldTranslation_alwaysAppend(translations, fieldId, lang, key, value, nowAt) ==
    Append(translations,
           [[fieldId |-> fieldId, name |-> EmptyTable,
             description |-> EmptyTable, options |-> EmptyTable,
             createdAt |-> nowAt, updatedAt |-> nowAt]
               EXCEPT ![key] = Put(EmptyTable, lang, value)])

(* a TranslationObject is a function from languages to texts; {...o, *)
(* [lang]: value} is Put(o, lang, value)                             *)
upsertFieldTranslation(translations, fieldId, lang, key, value, nowAt) ==
    IF getFieldTranslation(translations, fieldId)
    THEN [i \in 1..Len(translations) |->
             IF translations[i].fieldId = fieldId
             THEN [translations[i] EXCEPT ![key] = Put(@, lang, value),
                                          !.updatedAt = nowAt]
             ELSE translations[i]]
    ELSE Append(translations,
                [[fieldId |-> fieldId, name |-> EmptyTable,
                  description |-> EmptyTable, options |-> EmptyTable,
                  createdAt |-> nowAt, updatedAt |-> nowAt]
                    EXCEPT ![key] = Put(EmptyTable, lang, value)])

upsertOptionTranslation(translations, fieldId, optionId, lang, value, nowAt) ==
    IF getFieldTranslation(translations, fieldId)
    THEN [i \in 1..Len(translations) |->
             IF translations[i].fieldId # fieldId
             THEN translations[i]
             ELSE LET t == translations[i]
                      optTranslation == IF optionId \in DOMAIN t.options
                                        THEN t.options[optionId]
                                        ELSE EmptyTable
                  IN  [t EXCEPT !.options =
                                    Put(@, optionId,
                                        Put(optTranslation, lang, value)),
                                !.updatedAt = nowAt]]
    ELSE Append(translations,
                [fieldId |-> fieldId, name |-> EmptyTable,
                 description |-> EmptyTable,
                 options |-> Put(EmptyTable, optionId,
                                 Put(EmptyTable, lang, value)),
                 createdAt |-> nowAt, updatedAt |-> nowAt])

removeFieldTranslation(translations, fieldId) ==
    SelectSeq(translations, LAMBDA t : t.fieldId # fieldId)

(* Array.prototype.findIndex: the 0-based index of the first match, or -1 *)
findIndex(form_fields, id) ==
    IF \E i \in 1..Len(form_fields) : form_fields[i].id = id
    THEN (CHOOSE i \in 1..Len(form_fields) :
             /\ form_fields[i].id = id
             /\ \A j \in 1..(i - 1) : form_fields[j].id # id) - 1
    ELSE 0 - 1

(* Array.prototype.splice(start, 1): a negative start counts from the end *)
splice(array, start) ==
    LET len == Len(array)
        actualStart == IF start < 0
                       THEN (IF len + start < 0 THEN 0 ELSE len + start)
                       ELSE (IF start > len THEN len ELSE start)
    IN  IF actualStart >= len
        THEN array
        ELSE SubSeq(array, 1, actualStart)
                \o SubSeq(array, actualStart + 2, len)

(* the frame of a store event: the server's state is not involved *)
StoreFrame ==
    UNCHANGED <<now, env, users, db, extra, pull, result, push,
                event_logs, nextLogId, audit, web, clean, removed>>

SetFormName(payload) ==
    /\ writes < MaxEvents
    /\ store' = [store EXCEPT
                    !.name = payload,
                    !.translations =
                        upsertFieldTranslation(@, FORM_NAME_FIELD_ID,
                                               store.language, "name",
                                               payload, now)]
    /\ writes' = writes + 1
    /\ StoreFrame

SetFormDescription(payload) ==
    /\ writes < MaxEvents
    /\ store' = [store EXCEPT
                    !.description = payload,
                    !.translations =
                        upsertFieldTranslation(@, FORM_DESCRIPTION_FIELD_ID,
                                               store.language, "name",
                                               payload, now)]
    /\ writes' = writes + 1
    /\ StoreFrame

(* add-field with a payload that EventForm.toSchema accepts: the id is the *)
(* payload's, so a second field may carry an id already in the list        *)
AddField(payload) ==
    /\ writes < MaxEvents
    /\ store' = [store EXCEPT !.form_fields = Append(@, payload)]
    /\ writes' = writes + 1
    /\ StoreFrame

RemoveField(payload) ==
    /\ writes < MaxEvents
    /\ store' = [store EXCEPT
                    !.form_fields = splice(@, findIndex(@, payload)),
                    !.translations = removeFieldTranslation(@, payload)]
    /\ writes' = writes + 1
    /\ StoreFrame

(* set-field-key-value: with no such field, find() is undefined, the      *)
(* assignment throws inside produce and the context stays as it was       *)
SetFieldKeyValue(fieldId, key, value) ==
    /\ writes < MaxEvents
    /\ LET ix == findIndex(store.form_fields, fieldId)
       IN  IF ix < 0
           THEN store' = store
           ELSE store' =
                  [store EXCEPT
                      !.form_fields[ix + 1][key] = value,
                      !.translations =
                          IF key \in {"name", "description"}
                          THEN upsertFieldTranslation(@, fieldId,
                                   store.language, key, value, now)
                          ELSE IF key = "content"
                               THEN upsertFieldTranslation(@, fieldId,
                                        store.language, "name", value, now)
                               ELSE @]
    /\ writes' = writes + 1
    /\ StoreFrame

SetTranslation(fieldId, lang, key, value) ==
    /\ writes < MaxEvents
    /\ store' = [store EXCEPT
                    !.translations =
                        upsertFieldTranslation(@, fieldId, lang, key, value,
                                               now)]
    /\ writes' = writes + 1
    /\ StoreFrame

SetOptionTranslation(fieldId, optionId, lang, value) ==
    /\ writes < MaxEvents
    /\ store' = [store EXCEPT
                    !.translations =
                        upsertOptionTranslation(@, fieldId, optionId, lang,
                                                value, now)]
    /\ writes' = writes + 1
    /\ StoreFrame

Reset ==
    /\ writes < MaxEvents
    /\ store' = INITIAL_FORM_BUILDER_CONTEXT
    /\ writes' = writes + 1
    /\ StoreFrame

(* the fields the builder adds: text fields and text displays *)
FieldData ==
    [id : FieldIds, name : {"a"}, description : {""}, content : {""}]

NextStore ==
    \/ Tick
    \/ \E payload \in {"b"} : SetFormName(payload) \/ SetFormDescription(payload)
    \/ \E payload \in FieldData : AddField(payload)
    \/ \E payload \in FieldIds : RemoveField(payload)
    \/ \E fieldId \in FieldIds : \E key \in {"name", "description", "content"} :
          \E value \in {"b"} : SetFieldKeyValue(fieldId, key, value)
    \/ \E fieldId \in {"f1", FORM_NAME_FIELD_ID} : \E lang \in Langs :
          \E key \in {"name", "description"} : \E value \in Texts :
             SetTranslation(fieldId, lang, key, value)
    \/ \E fieldId \in {"f1"} : \E optionId \in OptionIds : \E lang \in Langs :
          \E value \in {"a"} :
             SetOptionTranslation(fieldId, optionId, lang, value)
    \/ Reset

SpecStore == InitAudit /\ [][NextStore]_vars


(* C33: the translations list never holds two entries of one fieldId, and *)
(* an event that removes no entry leaves every entry at its place with     *)
(* the languages and option ids it had, changing at most one text.         *)
C33_OneEntryPerField ==
    [][LET old == store.translations
           new == store'.translations
       IN  /\ \A i \in 1..Len(new) : \A j \in 1..Len(new) :
                 i # j => new[i].fieldId # new[j].fieldId
           /\ Len(new) >= Len(old)
                 => /\ \A i \in 1..Len(old) :
                          /\ new[i].fieldId = old[i].fieldId
                          /\ DOMAIN old[i].name \subseteq DOMAIN new[i].name
                          /\ DOMAIN old[i].description
                                \subseteq DOMAIN new[i].description
                          /\ DOMAIN old[i].options \subseteq DOMAIN new[i].options
                    /\ Cardinality(
                          {x \in (1..Len(old)) \X {"name", "description"} \X Langs :
                              /\ x[3] \in DOMAIN old[x[1]][x[2]]
                              /\ new[x[1]][x[2]][x[3]] # old[x[1]][x[2]][x[3]]})
                          <= 1]_vars

(* two languages were set on the one entry of a field, then an option *)
C33_Witness ==
    /\ Len(store.translations) = 1
    /\ store.translations[1].fieldId = "f1"
    /\ DOMAIN store.translations[1].name = Langs
    /\ "o1" \in DOMAIN store.translations[1].options

(* C34: remove-field(id) takes the field of that id and the translation *)
(* entry of that id away and leaves every other field and entry as it   *)
(* was; with no field of that id the field list is unchanged.           *)
C34_RemoveFieldFrame ==
    [][\A id \in FieldIds :
          RemoveField(id) =>
             /\ SelectSeq(store'.form_fields, LAMBDA f : f.id # id)
                   = SelectSeq(store.form_fields, LAMBDA f : f.id # id)
             /\ store'.translations
                   = SelectSeq(store.translations, LAMBDA t : t.fieldId # id)
             /\ IF \E i \in 1..Len(store.form_fields) :
                      store.form_fields[i].id = id
                THEN Len(store'.form_fields) = Len(store.form_fields) - 1
                ELSE store'.form_fields = store.form_fields]_vars


C36_DeletedFlagsAgree ==
    \A t \in Tables : \A id \in DOMAIN db[t] :
        (db[t][id].is_deleted = TRUE) <=> (db[t][id].deleted_at # NULL)

(* C37: in a bootstrap pull (watermark 0) the `updated` set of every *)
(* table of the response is empty, with or without a history limit.   *)
C37_BootstrapNothingUpdated ==
    pull.lastSyncedAt = 0
        => \A t \in DOMAIN result : result[t].updated = {}

(* C38: in one pull response no row id of a table is both in created or *)
(* updated and in deleted.                                               *)
C38_DeltaSetsDisjoint ==
    \A t \in DOMAIN result :
        (result[t].created \cup result[t].updated) \cap result[t].deleted = {}

(* C40: when a pull with a non-zero watermark T computes the delta of    *)
(* user_clinic_permissions, every row removed after T and still absent   *)
(* is in its `deleted` set.                                              *)
C40_PermissionRemovalPulled ==
    [][(/\ pull.pc = "x_updated"
        /\ ExtraSeq[pull.idx] = "user_clinic_permissions"
        /\ pull.lastSyncedAt > 0
        /\ PullExtraUpdated)
          => \A key \in DOMAIN removed :
                (/\ removed[key] > pull.lastSyncedAt
                 /\ key \notin DOMAIN extra["user_clinic_permissions"])
                   => key \in result'["user_clinic_permissions"].deleted]_vars


(* C39: updateEvent writes an UPDATE audit entry only when its data *)
(* statement matched a live row of that id.                         *)
C39_UpdateAuditedOnlyIfApplied ==
    [][\A id \in RowIds : \A formData \in FormDatas :
          (UpdateEvent(id, formData) /\ event_logs' # event_logs)
             => /\ id \in DOMAIN db["events"]
                /\ ~db["events"][id].is_deleted]_vars

====
